---------------------------- MODULE Spec2Model ----------------------------
(***************************************************************************)
(* kafkaconnectcli: one invocation of the Kafka Connect command line       *)
(* client (src/cmd/kafkaconnectcli/kafkaconnectcli.go, lines 1-464) run    *)
(* against a Kafka Connect worker reached through the REST client          *)
(* (package connect, src/unnamed/part_003, lines 201-411).                 *)
(*                                                                         *)
(* Strings whose characters matter (connector names, regular expressions,  *)
(* the -with-state value, configuration values) are sequences of           *)
(* one-character strings.  Every blocking HTTP call is one step.           *)
(***************************************************************************)
EXTENDS Integers, Sequences, FiniteSets, TLC

(***************************************************************************)
(* Bounds of the model.                                                    *)
(***************************************************************************)
\* longest list of connectors the worker holds
MaxConn == 3
\* largest -tasks-max value tried (two decimal digits are reached)
MaxTasksArg == 11
\* most updates other clients make while one invocation runs
MaxOthers == 1
\* largest HTTP status code a response carries
MaxStatus == 599

(***************************************************************************)
(* Character strings.                                                      *)
(***************************************************************************)
LowerAlpha ==
  << "a","b","c","d","e","f","g","h","i","j","k","l","m",
     "n","o","p","q","r","s","t","u","v","w","x","y","z" >>

UpperAlpha ==
  << "A","B","C","D","E","F","G","H","I","J","K","L","M",
     "N","O","P","Q","R","S","T","U","V","W","X","Y","Z" >>

DigitChars == << "0","1","2","3","4","5","6","7","8","9" >>

\* strings.ToUpper, one character
ToUpperChar(c) ==
  IF \E k \in 1..Len(LowerAlpha) : LowerAlpha[k] = c
  THEN UpperAlpha[CHOOSE k \in 1..Len(LowerAlpha) : LowerAlpha[k] = c]
  ELSE c

\* strings.ToUpper
ToUpper(s) == [k \in 1..Len(s) |-> ToUpperChar(s[k])]

\* strconv.Itoa
RECURSIVE Itoa(_)
Itoa(n) ==
  IF n < 0 THEN << "-" >> \o Itoa(-n)
  ELSE IF n < 10 THEN << DigitChars[n + 1] >>
  ELSE Itoa(n \div 10) \o << DigitChars[(n % 10) + 1] >>

Tail2(s) == SubSeq(s, 3, Len(s))

(***************************************************************************)
(* regexp.MustCompile(connector).MatchString(conn), for the expressions    *)
(* built from literal characters, '.', a postfix '*', a leading '^' and a  *)
(* trailing '$'.  MatchString is a search: it succeeds when some substring *)
(* of the text matches.                                                    *)
(***************************************************************************)
RECURSIVE MatchHere(_, _)
MatchHere(re, text) ==
  IF Len(re) = 0 THEN TRUE
  ELSE IF Len(re) >= 2 /\ re[2] = "*"
  THEN \E k \in 0..Len(text) :
          /\ \A m \in 1..k : re[1] = "." \/ re[1] = text[m]
          /\ MatchHere(Tail2(re), SubSeq(text, k + 1, Len(text)))
  ELSE IF re = << "$" >> THEN Len(text) = 0
  ELSE /\ Len(text) > 0
       /\ re[1] = "." \/ re[1] = text[1]
       /\ MatchHere(Tail(re), Tail(text))

\* depth of the parentheses open after re[k..], below 0 once one closes unopened
RECURSIVE ParenDepth(_, _, _)
ParenDepth(re, k, d) ==
  IF k > Len(re) \/ d < 0 THEN d
  ELSE ParenDepth(re, k + 1,
                  d + (IF re[k] = "(" THEN 1 ELSE IF re[k] = ")" THEN -1 ELSE 0))

\* regexp.Compile: whether the expression parses.  Of the expressions over
\* letters, ".", "*", "^", "(" and ")" those with an unmatched parenthesis
\* or a leading "*" do not.
Compiles(re) == ParenDepth(re, 1, 0) = 0 /\ (Len(re) = 0 \/ re[1] # "*")

MatchString(re, text) ==
  IF Len(re) > 0 /\ re[1] = "^"
  THEN MatchHere(Tail(re), text)
  ELSE \E k \in 1..(Len(text) + 1) : MatchHere(re, SubSeq(text, k, Len(text)))


(***************************************************************************)
(* Data of one run: connector names, regular expressions, -with-state      *)
(* values, configurations and statuses.                                    *)
(***************************************************************************)
N_a == << "a" >>
N_ab == << "a", "b" >>
N_b == << "b" >>
N_ba == << "b", "a" >>

Names == { N_a, N_ab, N_b, N_ba }

\* the regular expression .*
P_all == << ".", "*" >>
\* the regular expression ^b
P_startb == << "^", "b" >>

\* the text ( which is no regular expression
P_open == << "(" >>

\* values of -connector; the empty string is the flag's default
Patterns == { << >>, N_a, N_ab, P_all, P_startb, P_open }

S_RUNNING == << "R","U","N","N","I","N","G" >>
S_FAILED == << "F","A","I","L","E","D" >>
S_PAUSED == << "P","A","U","S","E","D" >>
S_UNASSIGNED == << "U","N","A","S","S","I","G","N","E","D" >>

\* values of -with-state; the empty string is the flag's default
StateArgs ==
  { << >>,
    << "r","u","n","n","i","n","g" >>,
    << "F","a","i","l","e","d" >>,
    S_PAUSED,
    << "u","n","a","s","s","i","g","n","e","d" >>,
    << "b","o","g","u","s" >> }

\* values of -tasks-max; given = FALSE when the flag is not on the command line
TasksArgs ==
  { [given |-> FALSE, val |-> 0] } \cup
  { [given |-> TRUE, val |-> n] : n \in { -1, 0, 1, 5, MaxTasksArg } }

\* Values of -config, the connector configuration json string: not given
\* (the default ""), a text that is no JSON, the JSON of a configuration.
JsonArgs ==
  { [given |-> FALSE, valid |-> FALSE, name |-> << >>],
    [given |-> TRUE, valid |-> FALSE, name |-> << >>],
    [given |-> TRUE, valid |-> TRUE, name |-> N_b] }

\* duplicate-free lists of at most MaxConn connector names
Lists ==
  UNION { { l \in [1..n -> Names] : \A x, y \in 1..n : x # y => l[x] # l[y] }
          : n \in 0..MaxConn }

\* keys of a configuration map, in the order json.Marshal writes them
KeyOrder == << "connector.class", "file", "tasks.max", "topics" >>

ConfigWithTasksMax(n) ==
  ("connector.class" :> << "S" >>) @@ ("tasks.max" :> << "2" >>) @@ ("topics" :> n)

ConfigWithoutTasksMax(n) ==
  ("connector.class" :> << "F" >>) @@ ("file" :> n)

ConfigMaps ==
  { [n \in Names |-> ConfigWithTasksMax(n)],
    [n \in Names |-> IF n \in { N_a, N_b } THEN ConfigWithoutTasksMax(n)
                                          ELSE ConfigWithTasksMax(n)] }

Task(id, state) == [id |-> id, state |-> state]

Status(n, state, tasks) ==
  [name |-> n, connector |-> [state |-> state], tasks |-> tasks]

StatusHealthy == [n \in Names |-> Status(n, S_RUNNING, << Task(0, S_RUNNING) >>)]

StatusMixed ==
  (N_a :> Status(N_a, S_RUNNING, << Task(0, S_RUNNING), Task(1, S_FAILED) >>)) @@
  (N_ab :> Status(N_ab, S_FAILED, << >>)) @@
  (N_b :> Status(N_b, S_PAUSED, << Task(0, S_PAUSED) >>)) @@
  (N_ba :> Status(N_ba, S_UNASSIGNED, << Task(0, S_UNASSIGNED), Task(1, S_RUNNING) >>))

StatusFailing ==
  (N_a :> Status(N_a, S_RUNNING, << Task(0, S_FAILED), Task(1, S_RUNNING), Task(2, S_FAILED) >>)) @@
  (N_ab :> Status(N_ab, S_PAUSED, << Task(0, S_FAILED) >>)) @@
  (N_b :> Status(N_b, S_FAILED, << Task(0, S_FAILED), Task(1, S_FAILED) >>)) @@
  (N_ba :> Status(N_ba, S_RUNNING, << >>))

StatusMaps == { StatusHealthy, StatusMixed, StatusFailing }

\* the zero values Go leaves in a result when the call returned an error
ZeroStatus == Status(<< >>, << >>, << >>)
ZeroConfig == [name |-> << >>, config |-> << >>]

(***************************************************************************)
(* JSON of a configuration map: json.Marshal writes the pairs sorted by    *)
(* key, json.Unmarshal reads them back into a map.                         *)
(***************************************************************************)
RECURSIVE MarshalFrom(_, _)
MarshalFrom(m, k) ==
  IF k > Len(KeyOrder) THEN << >>
  ELSE IF KeyOrder[k] \in DOMAIN m
  THEN << << KeyOrder[k], m[KeyOrder[k]] >> >> \o MarshalFrom(m, k + 1)
  ELSE MarshalFrom(m, k + 1)

Marshal(m) == MarshalFrom(m, 1)

Unmarshal(body) ==
  [key \in { body[k][1] : k \in 1..Len(body) } |->
     body[CHOOSE k \in 1..Len(body) : body[k][1] = key][2]]

(***************************************************************************)
(* State.                                                                  *)
(***************************************************************************)
VARIABLES
  command,    \* os.Args[1]
  argv,       \* the flags of os.Args[2:]: connector, state, tasks
  pc,         \* where the invocation stands
  srvList,    \* the worker: names of its connectors, in the order it lists them
  srvConfig,  \* the worker: configuration of each connector
  srvStatus,  \* the worker: status of each connector
  reqs,       \* HTTP requests issued so far, each with its response
  out,        \* lines written so far
  result,     \* named result `result` of the running handler
  e,          \* named result `e` of the running handler
  list,       \* findMatchingConnectors: the names client.List() returned
  matches,    \* the names being looped over (matches / connectors)
  i,          \* index of the loop over list or matches
  config,     \* handleScaleCommand: the configuration fetched
  status,     \* restart-failed: the status fetched
  j,          \* restart-failed: index of the loop over status.Tasks
  exitCode,   \* exit code of the process, -1 while it runs
  others,     \* the worker: updates other clients made during the invocation
  srvCompat,  \* the schema registry: compatibility level of each subject
  srvSchemas, \* the schema registry: schemas registered under each subject
  compatibilityLevel  \* register: the level read before a forced registration

vars ==
  << command, argv, pc, srvList, srvConfig, srvStatus, reqs, out, result, e,
     list, matches, i, config, status, j, exitCode, others, srvCompat,
     srvSchemas, compatibilityLevel >>

server == << srvList, srvConfig, srvStatus >>

\* what the schema registry CLI alone reads and writes
registryVars == << srvCompat, srvSchemas, compatibilityLevel >>

\* what the Kafka Connect CLI alone reads and writes
connectVars ==
  << srvList, srvConfig, srvStatus, list, matches, i, config, status, j, others >>

ConnectorCommands ==
  { "config", "status", "delete", "resume", "pause", "tasks", "restart-failed" }

CommonCommands == { "delete-all", "plugins", "version" }

Commands ==
  ConnectorCommands \cup CommonCommands \cup { "list", "scale", "create", "update" }

\* a nil error
NoErr == [error_code |-> 0, op |-> "", name |-> << >>]

\* a nil interface{} result
NilResult == [kind |-> "nil"]

(***************************************************************************)
(* The worker's REST interface.  A request for a connector it does not     *)
(* hold is answered 404; any other request is served (200) or fails (500). *)
(***************************************************************************)
ErrBody(code, op, n) == [error_code |-> code, op |-> op, name |-> n]

InList(n) == \E k \in 1..Len(srvList) : srvList[k] = n

OkBody(op, n, sent) ==
  CASE op = "list" -> srvList
    [] op = "config" -> [name |-> n, config |-> srvConfig[n]]
    [] op = "status" -> srvStatus[n]
    [] op \in { "update", "create" } -> [name |-> n, config |-> Unmarshal(sent)]
    [] OTHER -> << >>

\* the status codes the worker may answer a request with
Codes(op, n) ==
  IF op = "create" THEN (IF InList(n) THEN { 409 } ELSE { 200, 500 })
  ELSE IF op \in { "list", "version", "plugins" } \/ InList(n)
  THEN { 200, 500 }
  ELSE { 404 }

Reply(op, n, sent, code) ==
  [code |-> code,
   body |-> IF code = 200 THEN OkBody(op, n, sent) ELSE ErrBody(code, op, n)]

Remove(l, n) == SelectSeq(l, LAMBDA x : x # n)

SetTaskState(st, id, state) ==
  [st EXCEPT !.tasks =
     [k \in 1..Len(st.tasks) |->
        IF st.tasks[k].id = id THEN Task(id, state) ELSE st.tasks[k]]]

\* what a served request does to the worker
Serve(op, n, id, sent) ==
  /\ srvList' = IF op = "delete" THEN Remove(srvList, n)
                ELSE IF op = "create" THEN Append(srvList, n)
                ELSE srvList
  /\ srvConfig' = IF op \in { "update", "create" }
                  THEN [srvConfig EXCEPT ![n] = Unmarshal(sent)]
                  ELSE srvConfig
  /\ srvStatus' =
       CASE op = "pause" -> [srvStatus EXCEPT ![n].connector.state = S_PAUSED]
         [] op = "resume" -> [srvStatus EXCEPT ![n].connector.state = S_RUNNING]
         [] op = "restart" -> [srvStatus EXCEPT ![n] = SetTaskState(@, id, S_RUNNING)]
         [] OTHER -> srvStatus

\* one blocking HTTP exchange: the request is logged with its response
Http(op, n, id, sent, resp) ==
  /\ reqs' = Append(reqs, [op |-> op, name |-> n, id |-> id, sent |-> sent,
                           code |-> resp.code, body |-> resp.body])
  /\ IF resp.code = 200 THEN Serve(op, n, id, sent) ELSE UNCHANGED server

\* the HTTP method the client sends each request with
Method(op) ==
  CASE op \in { "version", "plugins", "list", "status", "tasks", "config" } -> "GET"
    [] op \in { "pause", "resume", "update" } -> "PUT"
    [] op \in { "restart", "create" } -> "POST"
    [] op = "delete" -> "DELETE"

(***************************************************************************)
(* package connect                                                         *)
(***************************************************************************)
\* the test of the status code leaving out both ends of the range
requestAndGetResponseOpen(resp) ==
  IF resp.code > 400 /\ resp.code < 500
  THEN [body |-> << >>, err |-> resp.body]
  ELSE [body |-> resp.body, err |-> NoErr]

requestAndGetResponse(resp) ==
  IF resp.code >= 400 /\ resp.code <= 500
  THEN [body |-> << >>, err |-> resp.body]
  ELSE [body |-> resp.body, err |-> NoErr]

\* List, Status, GetConfig: the decoded body, or the zero value and the error
ClientDecode(resp, zero) ==
  LET rr == requestAndGetResponse(resp)
  IN  [r |-> IF rr.err = NoErr THEN rr.body ELSE zero, e |-> rr.err]

\* Version, Plugins, Tasks, Create, Update: the body as a string, or ""
ClientText(resp) ==
  LET rr == requestAndGetResponse(resp)
  IN  [r |-> IF rr.err = NoErr THEN [text |-> rr.body] ELSE [text |-> << >>],
       e |-> rr.err]

\* Pause, Delete, Resume, Restart: the error alone
ClientDo(resp) == requestAndGetResponse(resp).err

(***************************************************************************)
(* main: flags, validation, dispatch.                                      *)
(***************************************************************************)
\* ArgParser.parse: a flag that is not given keeps its default
Parse(flags) ==
  [connector |-> flags.connector,
   state |-> flags.state,
   json |-> flags.json,
   tasks |-> IF flags.tasks.given THEN flags.tasks.val ELSE 0]

\* the validators of the command's ArgParser, in the order they were added
Validators(cmd) ==
  IF cmd \in ConnectorCommands THEN << "connector" >>
  ELSE IF cmd = "scale" THEN << "connector", "tasks-max" >>
  ELSE IF cmd = "create" THEN << "config" >>
  ELSE IF cmd = "update" THEN << "connector", "config" >>
  ELSE << >>

\* the tasks-max validator accepting zero
ValidatorApplyNonNegative(v, args) ==
  IF v = "connector" THEN args.connector # << >>
  ELSE IF v = "config" THEN args.json.given
  ELSE args.tasks >= 0

\* Validator.apply: *args.connector != "", *args.json != "" (-config.json
\* and -config.props are not given), *args.tasks > 0
ValidatorApply(v, args) ==
  IF v = "connector" THEN args.connector # << >>
  ELSE IF v = "config" THEN args.json.given
  ELSE args.tasks > 0

Line(stream, msg, n) == [stream |-> stream, msg |-> msg, name |-> n]

\* first pc of the command's handler
HandlerPc(cmd) ==
  IF cmd \in ConnectorCommands THEN "find"
  ELSE IF cmd = "list" THEN "list"
  ELSE IF cmd = "scale" THEN "scale_get"
  ELSE IF cmd \in { "create", "update" } THEN cmd
  ELSE "common"

\* pc of the body of the loop over the matched connectors
LoopPc(cmd) ==
  IF cmd \in { "delete", "delete-all" } THEN "del_cfg"
  ELSE IF cmd = "restart-failed" THEN "rf_status"
  ELSE "op"

NoTasks == [given |-> FALSE, val |-> 0]

Init ==
  /\ command \in Commands
  /\ argv \in [connector : Patterns, state : StateArgs, tasks : TasksArgs,
               json : JsonArgs]
  /\ command \notin ConnectorCommands \cup { "scale", "update" } => argv.connector = << >>
  /\ command \notin { "create", "update" } => ~argv.json.given
  /\ command # "list" => argv.state = << >>
  /\ command # "scale" => argv.tasks = NoTasks
  /\ srvList \in Lists
  /\ srvConfig \in ConfigMaps
  /\ command \notin { "scale", "config" } => srvConfig = [n \in Names |-> ConfigWithTasksMax(n)]
  /\ srvStatus \in StatusMaps
  /\ command \notin { "list", "status", "restart-failed" } => srvStatus = StatusHealthy
  /\ pc = "validate"
  /\ reqs = << >>
  /\ out = << >>
  /\ result = NilResult
  /\ e = NoErr
  /\ list = << >>
  /\ matches = << >>
  /\ i = 1
  /\ config = ZeroConfig
  /\ status = ZeroStatus
  /\ j = 1
  /\ exitCode = -1
  /\ others = << >>
  /\ srvCompat = << >>
  /\ srvSchemas = << >>
  /\ compatibilityLevel = << >>

\* ArgParser.Validates, then the handler main selects
Validates ==
  /\ pc = "validate"
  /\ LET args == Parse(argv)
         vs == Validators(command)
         bad == { k \in 1..Len(vs) : ~ValidatorApply(vs[k], args) }
     IN  IF bad # {}
         THEN /\ out' = Append(out, Line("stderr", "invalid", << >>))
              /\ exitCode' = 1
              /\ pc' = "exit"
         ELSE /\ pc' = HandlerPc(command)
              /\ UNCHANGED << out, exitCode >>
  /\ UNCHANGED << command, argv, server, reqs, result, e, list, matches, i,
                  config, status, j >>
  /\ UNCHANGED << others, registryVars >>

(***************************************************************************)
(* findMatchingConnectors with the name matcher of handleConnectorCommands *)
(***************************************************************************)
\* the loop body putting a matching name in front of those collected
AppendFirst(connectors, conn, m) ==
  IF m THEN << conn >> \o connectors ELSE connectors

\* one pass of the loop body: if matches { connectors = append(connectors, conn) }
AppendIfMatches(connectors, conn, m) ==
  IF m THEN Append(connectors, conn) ELSE connectors

RECURSIVE MatchingFrom(_, _, _, _)
MatchingFrom(l, re, k, connectors) ==
  IF k > Len(l) THEN connectors
  ELSE MatchingFrom(l, re, k + 1,
                    AppendIfMatches(connectors, l[k], MatchString(re, l[k])))

MatchingByName(l, re) == MatchingFrom(l, re, 1, << >>)

\* the loop running the body for matches[i] once more when its request
\* failed for the first time
NextConnRetryOnce ==
  LET last  == reqs'[Len(reqs')]
      prev  == reqs[Len(reqs)]
      again == /\ last.code # 200
               /\ ~(prev.op = last.op /\ prev.name = last.name /\ prev.code # 200)
  IN  /\ i' = IF again THEN i ELSE i + 1
      /\ pc' = IF again THEN LoopPc(command)
               ELSE IF i + 1 > Len(matches) THEN "print" ELSE LoopPc(command)

\* after the loop body for matches[i]
NextConn ==
  /\ i' = i + 1
  /\ pc' = IF i + 1 > Len(matches) THEN "print" ELSE LoopPc(command)

\* findMatchingConnectors called with matches, e := ... in an inner scope:
\* the named result e of the handler stays nil
FindShadowed ==
  /\ pc = "find"
  /\ IF ~Compiles(Parse(argv).connector)
     THEN /\ out' = Append(out, Line("stderr", "panic", << >>))
          /\ exitCode' = 2
          /\ pc' = "exit"
          /\ UNCHANGED << server, reqs, e, list, matches >>
     ELSE /\ exitCode' = exitCode
          /\ \E code \in Codes("list", << >>) :
               LET resp == Reply("list", << >>, << >>, code)
                   got == ClientDecode(resp, << >>)
                   found == MatchingByName(got.r, Parse(argv).connector)
               IN  /\ Http("list", << >>, 0, << >>, resp)
                   /\ e' = e
                   /\ IF got.e = NoErr
                      THEN /\ list' = got.r
                           /\ matches' = found
                           /\ out' = IF Len(found) = 0
                                     THEN Append(out, Line("stdin", "nomatch", << >>))
                                     ELSE out
                           /\ pc' = IF Len(found) = 0 THEN "print" ELSE LoopPc(command)
                      ELSE /\ pc' = "print"
                           /\ UNCHANGED << list, matches, out >>
  /\ UNCHANGED << command, argv, result, i, config, status, j >>
  /\ UNCHANGED << others, registryVars >>

\* connectRegex := regexp.MustCompile(connector), which panics (exit code 2)
\* when the text does not compile, then findMatchingConnectors
Find ==
  /\ pc = "find"
  /\ IF ~Compiles(Parse(argv).connector)
     THEN /\ out' = Append(out, Line("stderr", "panic", << >>))
          /\ exitCode' = 2
          /\ pc' = "exit"
          /\ UNCHANGED << server, reqs, e, list, matches >>
     ELSE /\ exitCode' = exitCode
          /\ \E code \in Codes("list", << >>) :
               LET resp == Reply("list", << >>, << >>, code)
                   got == ClientDecode(resp, << >>)
                   found == MatchingByName(got.r, Parse(argv).connector)
               IN  /\ Http("list", << >>, 0, << >>, resp)
                   /\ e' = got.e
                   /\ IF got.e = NoErr
                      THEN /\ list' = got.r
                           /\ matches' = found
                           /\ out' = IF Len(found) = 0
                                     THEN Append(out, Line("stdin", "nomatch", << >>))
                                     ELSE out
                           /\ pc' = IF Len(found) = 0 THEN "print" ELSE LoopPc(command)
                      ELSE /\ pc' = "print"
                           /\ UNCHANGED << list, matches, out >>
  /\ UNCHANGED << command, argv, result, i, config, status, j >>
  /\ UNCHANGED << others, registryVars >>

(***************************************************************************)
(* handleConnectorCommands: the body of the loop over matches.             *)
(***************************************************************************)
\* case "config": result, e = client.GetConfig(conn)
CmdConfig ==
  /\ pc = "op" /\ command = "config"
  /\ \E code \in Codes("config", matches[i]) :
       LET resp == Reply("config", matches[i], << >>, code)
           got == ClientDecode(resp, ZeroConfig)
       IN  /\ Http("config", matches[i], 0, << >>, resp)
           /\ result' = [kind |-> "config", val |-> got.r]
           /\ e' = got.e
  /\ NextConn
  /\ UNCHANGED << command, argv, out, list, matches, config, status, j, exitCode >>
  /\ UNCHANGED << others, registryVars >>

\* case "status" sending the resume request for the connector it reports on
CmdStatusResuming ==
  /\ pc = "op" /\ command = "status"
  /\ \E code \in Codes("status", matches[i]) :
       LET resp == Reply("status", matches[i], << >>, code)
           got == ClientDecode(resp, ZeroStatus)
       IN  /\ Http("resume", matches[i], 0, << >>, resp)
           /\ result' = [kind |-> "status", val |-> got.r]
           /\ e' = got.e
  /\ NextConn
  /\ UNCHANGED << command, argv, out, list, matches, config, status, j, exitCode >>
  /\ UNCHANGED << others, registryVars >>

\* case "status": result, e = client.Status(conn)
CmdStatus ==
  /\ pc = "op" /\ command = "status"
  /\ \E code \in Codes("status", matches[i]) :
       LET resp == Reply("status", matches[i], << >>, code)
           got == ClientDecode(resp, ZeroStatus)
       IN  /\ Http("status", matches[i], 0, << >>, resp)
           /\ result' = [kind |-> "status", val |-> got.r]
           /\ e' = got.e
  /\ NextConn
  /\ UNCHANGED << command, argv, out, list, matches, config, status, j, exitCode >>
  /\ UNCHANGED << others, registryVars >>

\* case "tasks": result, e = client.Tasks(conn)
CmdTasks ==
  /\ pc = "op" /\ command = "tasks"
  /\ \E code \in Codes("tasks", matches[i]) :
       LET resp == Reply("tasks", matches[i], << >>, code)
           got == ClientText(resp)
       IN  /\ Http("tasks", matches[i], 0, << >>, resp)
           /\ result' = [kind |-> "text", val |-> got.r]
           /\ e' = got.e
  /\ NextConn
  /\ UNCHANGED << command, argv, out, list, matches, config, status, j, exitCode >>
  /\ UNCHANGED << others, registryVars >>

\* case "resume" applied to the i-th listed name instead of the i-th matched name
CmdResumeListed ==
  /\ pc = "op" /\ command = "resume"
  /\ \E code \in Codes("resume", reqs[1].body[i]) :
       LET resp == Reply("resume", reqs[1].body[i], << >>, code) IN
       /\ Http("resume", reqs[1].body[i], 0, << >>, resp)
       /\ e' = ClientDo(resp)
       /\ out' = IF ClientDo(resp) = NoErr
                 THEN Append(out, Line("stdin", "resumed", reqs[1].body[i]))
                 ELSE out
  /\ NextConn
  /\ UNCHANGED << command, argv, result, list, matches, config, status, j, exitCode >>
  /\ UNCHANGED << others, registryVars >>

\* case "resume": e = client.Resume(conn), and a confirmation when e == nil
CmdResume ==
  /\ pc = "op" /\ command = "resume"
  /\ \E code \in Codes("resume", matches[i]) :
       LET resp == Reply("resume", matches[i], << >>, code) IN
       /\ Http("resume", matches[i], 0, << >>, resp)
       /\ e' = ClientDo(resp)
       /\ out' = IF ClientDo(resp) = NoErr
                 THEN Append(out, Line("stdin", "resumed", matches[i]))
                 ELSE out
  /\ NextConn
  /\ UNCHANGED << command, argv, result, list, matches, config, status, j, exitCode >>
  /\ UNCHANGED << others, registryVars >>

\* case "pause" keeping the first error met instead of overwriting it
CmdPauseKeepFirstError ==
  /\ pc = "op" /\ command = "pause"
  /\ \E code \in Codes("pause", matches[i]) :
       LET resp == Reply("pause", matches[i], << >>, code) IN
       /\ Http("pause", matches[i], 0, << >>, resp)
       /\ e' = IF e # NoErr THEN e ELSE ClientDo(resp)
       /\ out' = IF ClientDo(resp) = NoErr
                 THEN Append(out, Line("stdin", "paused", matches[i]))
                 ELSE out
  /\ NextConn
  /\ UNCHANGED << command, argv, result, list, matches, config, status, j, exitCode >>
  /\ UNCHANGED << others, registryVars >>

\* case "pause": e = client.Pause(conn), and a confirmation when e == nil
CmdPause ==
  /\ pc = "op" /\ command = "pause"
  /\ \E code \in Codes("pause", matches[i]) :
       LET resp == Reply("pause", matches[i], << >>, code) IN
       /\ Http("pause", matches[i], 0, << >>, resp)
       /\ e' = ClientDo(resp)
       /\ out' = IF ClientDo(resp) = NoErr
                 THEN Append(out, Line("stdin", "paused", matches[i]))
                 ELSE out
  /\ NextConn
  /\ UNCHANGED << command, argv, result, list, matches, config, status, j, exitCode >>
  /\ UNCHANGED << others, registryVars >>

(***************************************************************************)
(* deleteConnector, called by "delete" (handleConnectorCommands) and by    *)
(* "delete-all" (handleCommonsCommand).                                    *)
(***************************************************************************)
\* deleteConnector's caller going on with the next connector whatever it returned
DeleteReturnedContinue(err) ==
  /\ e' = IF command = "delete" THEN err ELSE e
  /\ NextConn

\* The caller's use of the error deleteConnector returned.
\* "delete" assigns it to the named result e and goes on with the next
\* connector.  "delete-all" assigns it to the e its case clause declared
\* (connectors, e := client.List()), breaks when it is not nil, and leaves
\* the named result e nil.
DeleteReturned(err) ==
  IF command = "delete"
  THEN e' = err /\ NextConn
  ELSE /\ e' = e
       /\ IF err # NoErr
          THEN pc' = "print" /\ i' = i
          ELSE NextConn

\* deleteConnector going on to the DELETE request whatever the fetch returned
DeleteGetConfigBestEffort ==
  /\ pc = "del_cfg"
  /\ \E code \in Codes("config", matches[i]) :
       LET resp == Reply("config", matches[i], << >>, code)
           got == ClientDecode(resp, ZeroConfig)
       IN  /\ Http("config", matches[i], 0, << >>, resp)
           /\ out' = IF got.e = NoErr
                     THEN Append(out, [stream |-> "stdout", msg |-> "current-config",
                                       name |-> matches[i], val |-> got.r])
                     ELSE out
  /\ pc' = "del_delete"
  /\ UNCHANGED << command, argv, result, e, list, matches, i, config, status, j, exitCode >>
  /\ UNCHANGED << others, registryVars >>

\* deleteConnector issuing the DELETE request without fetching the configuration
DeleteWithoutFetch ==
  /\ pc = "del_cfg"
  /\ pc' = "del_delete"
  /\ UNCHANGED << command, argv, result, e, list, matches, i, config, status, j, exitCode >>
  /\ UNCHANGED << srvList, srvConfig, srvStatus, reqs, out >>
  /\ UNCHANGED << others, registryVars >>

\* connectorTasks, e := client.GetConfig(connector); the rest runs if e == nil
DeleteGetConfig ==
  /\ pc = "del_cfg"
  /\ \E code \in Codes("config", matches[i]) :
       LET resp == Reply("config", matches[i], << >>, code)
           got == ClientDecode(resp, ZeroConfig)
       IN  /\ Http("config", matches[i], 0, << >>, resp)
           /\ IF got.e = NoErr
              THEN /\ out' = Append(out, [stream |-> "stdout", msg |-> "current-config",
                                          name |-> matches[i], val |-> got.r])
                   /\ pc' = "del_delete"
                   /\ UNCHANGED << e, i >>
              ELSE /\ DeleteReturned(got.e)
                   /\ out' = out
  /\ UNCHANGED << command, argv, result, list, matches, config, status, j, exitCode >>
  /\ UNCHANGED << others, registryVars >>

\* deleteConnector sending the DELETE request a second time when the first failed
DeleteDeleteRetryOnce ==
  /\ pc = "del_delete"
  /\ \E code \in Codes("delete", matches[i]) :
       LET resp == Reply("delete", matches[i], << >>, code) IN
       /\ Http("delete", matches[i], 0, << >>, resp)
       /\ out' = IF ClientDo(resp) = NoErr
                 THEN Append(out, Line("stdin", "deleted", matches[i]))
                 ELSE out
       /\ IF ClientDo(resp) # NoErr /\ reqs[Len(reqs)].op # "delete"
          THEN UNCHANGED << pc, e, i >>
          ELSE DeleteReturned(ClientDo(resp))
  /\ UNCHANGED << command, argv, result, list, matches, config, status, j, exitCode >>
  /\ UNCHANGED << others, registryVars >>

\* e = client.Delete(connector), and a confirmation when e == nil
DeleteDelete ==
  /\ pc = "del_delete"
  /\ \E code \in Codes("delete", matches[i]) :
       LET resp == Reply("delete", matches[i], << >>, code) IN
       /\ Http("delete", matches[i], 0, << >>, resp)
       /\ out' = IF ClientDo(resp) = NoErr
                 THEN Append(out, Line("stdin", "deleted", matches[i]))
                 ELSE out
       /\ DeleteReturned(ClientDo(resp))
  /\ UNCHANGED << command, argv, result, list, matches, config, status, j, exitCode >>
  /\ UNCHANGED << others, registryVars >>

(***************************************************************************)
(* case "restart-failed"                                                   *)
(***************************************************************************)
\* the loop restarting every task: the index k itself
NextTask(st, k) == k

\* index of the first FAILED task of st at or after k, Len + 1 when none
RECURSIVE NextFailed(_, _)
NextFailed(st, k) ==
  IF k > Len(st.tasks) THEN k
  ELSE IF st.tasks[k].state = S_FAILED THEN k
  ELSE NextFailed(st, k + 1)

\* status, e := client.Status(conn): this e is local to the case clause
RestartStatus ==
  /\ pc = "rf_status"
  /\ \E code \in Codes("status", matches[i]) :
       LET resp == Reply("status", matches[i], << >>, code)
           got == ClientDecode(resp, ZeroStatus)
           first == NextFailed(got.r, 1)
       IN  /\ Http("status", matches[i], 0, << >>, resp)
           /\ IF got.e = NoErr /\ first <= Len(got.r.tasks)
              THEN /\ status' = got.r
                   /\ j' = first
                   /\ pc' = "rf_restart"
                   /\ i' = i
              ELSE /\ NextConn
                   /\ UNCHANGED << status, j >>
  /\ UNCHANGED << command, argv, out, result, e, list, matches, config, exitCode >>
  /\ UNCHANGED << others, registryVars >>

\* the loop over status.Tasks returning the first error of client.Restart
RestartTaskFailFast ==
  /\ pc = "rf_restart"
  /\ \E code \in Codes("restart", status.name) :
       LET resp == Reply("restart", status.name, << >>, code) IN
       /\ Http("restart", status.name, status.tasks[j].id, << >>, resp)
       /\ out' = Append(out, [stream |-> "stdin", msg |-> "restarting",
                              name |-> status.name, id |-> status.tasks[j].id])
  /\ LET nxt == NextFailed(status, j + 1)
     IN  IF reqs'[Len(reqs')].code # 200
         THEN j' = j /\ i' = i /\ pc' = "print" /\ e' = reqs'[Len(reqs')].body
         ELSE IF nxt <= Len(status.tasks)
         THEN j' = nxt /\ pc' = pc /\ i' = i /\ e' = e
         ELSE j' = j /\ NextConn /\ e' = e
  /\ UNCHANGED << command, argv, result, list, matches, config, status, exitCode >>
  /\ UNCHANGED << others, registryVars >>

\* client.Restart(status.Name, task.ID): the error it returns is dropped
RestartTask ==
  /\ pc = "rf_restart"
  /\ \E code \in Codes("restart", status.name) :
       LET resp == Reply("restart", status.name, << >>, code) IN
       /\ Http("restart", status.name, status.tasks[j].id, << >>, resp)
       /\ out' = Append(out, [stream |-> "stdin", msg |-> "restarting",
                              name |-> status.name, id |-> status.tasks[j].id])
  /\ LET nxt == NextFailed(status, j + 1)
     IN  IF nxt <= Len(status.tasks)
         THEN j' = nxt /\ pc' = pc /\ i' = i
         ELSE j' = j /\ NextConn
  /\ UNCHANGED << command, argv, result, e, list, matches, config, status, exitCode >>
  /\ UNCHANGED << others, registryVars >>

(***************************************************************************)
(* handleListCommand                                                       *)
(***************************************************************************)
StateFilters == { S_RUNNING, S_FAILED, S_PAUSED, S_UNASSIGNED }

\* the filter applied whenever a -with-state value is given
IsStateFilterNonEmpty(state) == Len(state) > 0

\* the switch taken on the value as typed
IsStateFilterExact(state) == state \in StateFilters

\* the switch on strings.ToUpper(state)
IsStateFilter(state) == ToUpper(state) \in StateFilters

\* the matcher looking at the connector's own state alone
StateMatchesConnectorOnly(st, state) == st.connector.state = state

\* the matcher of the state filter, applied to a fetched status:
\* res := status.Connector.State == state; res = res || task.State == state
StateMatches(st, state) ==
  \/ st.connector.state = state
  \/ \E k \in 1..Len(st.tasks) : st.tasks[k].state = state

\* default: result, e = client.List()
ListAll ==
  /\ pc = "list" /\ ~IsStateFilter(Parse(argv).state)
  /\ \E code \in Codes("list", << >>) :
       LET resp == Reply("list", << >>, << >>, code)
           got == ClientDecode(resp, << >>)
       IN  /\ Http("list", << >>, 0, << >>, resp)
           /\ result' = [kind |-> "names", val |-> got.r]
           /\ e' = got.e
  /\ pc' = "print"
  /\ UNCHANGED << command, argv, out, list, matches, i, config, status, j, exitCode >>
  /\ UNCHANGED << others, registryVars >>

\* findMatchingConnectors: list, e := client.List().  With an error, or with
\* no name to test, it returns at once and handleListCommand has its result.
ListFind ==
  /\ pc = "list" /\ IsStateFilter(Parse(argv).state)
  /\ \E code \in Codes("list", << >>) :
       LET resp == Reply("list", << >>, << >>, code)
           got == ClientDecode(resp, << >>)
       IN  /\ Http("list", << >>, 0, << >>, resp)
           /\ e' = got.e
           /\ list' = got.r
           /\ IF got.e = NoErr /\ Len(got.r) > 0
              THEN pc' = "ls_status" /\ result' = result
              ELSE pc' = "print" /\ result' = [kind |-> "names", val |-> << >>]
  /\ UNCHANGED << command, argv, out, matches, i, config, status, j, exitCode >>
  /\ UNCHANGED << others, registryVars >>

\* One pass of the loop of findMatchingConnectors with the state matcher:
\* matches, e := matcher(conn) declares an e local to the loop body; on an
\* error the loop breaks and the function returns what it has collected
\* with its named result e, which is still nil.
ListStatus ==
  /\ pc = "ls_status"
  /\ \E code \in Codes("status", list[i]) :
       LET resp == Reply("status", list[i], << >>, code)
           got == ClientDecode(resp, ZeroStatus)
           found == AppendIfMatches(matches, list[i],
                                    StateMatches(got.r, ToUpper(Parse(argv).state)))
       IN  /\ Http("status", list[i], 0, << >>, resp)
           /\ IF got.e # NoErr
              THEN /\ result' = [kind |-> "names", val |-> matches]
                   /\ pc' = "print"
                   /\ UNCHANGED << matches, i >>
              ELSE /\ matches' = found
                   /\ i' = i + 1
                   /\ IF i + 1 > Len(list)
                      THEN pc' = "print" /\ result' = [kind |-> "names", val |-> found]
                      ELSE pc' = pc /\ result' = result
  /\ UNCHANGED << command, argv, out, e, list, config, status, j, exitCode >>
  /\ UNCHANGED << others, registryVars >>

(***************************************************************************)
(* handleScaleCommand                                                      *)
(***************************************************************************)
\* a configuration that holds tasks.max alone
SetTasksMaxOnly(cfg, n) == ("tasks.max" :> Itoa(n))

\* config.Config["tasks.max"] = strconv.Itoa(tasks)
SetTasksMax(cfg, n) ==
  [key \in DOMAIN cfg \cup { "tasks.max" } |->
     IF key = "tasks.max" THEN Itoa(n) ELSE cfg[key]]

\* handleScaleCommand going on to the update when the fetch returned an error
ScaleGetConfigGoOn ==
  /\ pc = "scale_get"
  /\ \E code \in Codes("config", Parse(argv).connector) :
       LET resp == Reply("config", Parse(argv).connector, << >>, code)
           got == ClientDecode(resp, ZeroConfig)
       IN  /\ Http("config", Parse(argv).connector, 0, << >>, resp)
           /\ IF got.e = NoErr
              THEN config' = got.r /\ pc' = "scale_put" /\ e' = e
              ELSE config' = config /\ pc' = "scale_put" /\ e' = e
  /\ UNCHANGED << command, argv, out, result, list, matches, i, status, j, exitCode >>
  /\ UNCHANGED << others, registryVars >>

\* config, err := client.GetConfig(connector); with an error: return nil, err
ScaleGetConfig ==
  /\ pc = "scale_get"
  /\ \E code \in Codes("config", Parse(argv).connector) :
       LET resp == Reply("config", Parse(argv).connector, << >>, code)
           got == ClientDecode(resp, ZeroConfig)
       IN  /\ Http("config", Parse(argv).connector, 0, << >>, resp)
           /\ IF got.e = NoErr
              THEN config' = got.r /\ pc' = "scale_put" /\ e' = e
              ELSE config' = config /\ pc' = "print" /\ e' = got.e
  /\ UNCHANGED << command, argv, out, result, list, matches, i, status, j, exitCode >>
  /\ UNCHANGED << others, registryVars >>

\* an update that leaves every key but tasks.max as the worker holds it now
ScaleUpdatePatch ==
  /\ pc = "scale_put"
  /\ LET args == Parse(argv)
         sent == Marshal(SetTasksMax(srvConfig[args.connector], args.tasks))
     IN  \E code \in Codes("update", args.connector) :
           LET resp == Reply("update", args.connector, sent, code)
               got == ClientText(resp)
           IN  /\ Http("update", args.connector, 0, sent, resp)
               /\ result' = [kind |-> "text", val |-> got.r]
               /\ e' = got.e
  /\ pc' = "print"
  /\ UNCHANGED << command, argv, out, list, matches, i, config, status, j, exitCode >>
  /\ UNCHANGED << others, registryVars >>

\* result, e = client.Update(ConnectorConfig{Name: connector, Config: config.Config})
ScaleUpdate ==
  /\ pc = "scale_put"
  /\ LET args == Parse(argv)
         sent == Marshal(SetTasksMax(config.config, args.tasks))
     IN  \E code \in Codes("update", args.connector) :
           LET resp == Reply("update", args.connector, sent, code)
               got == ClientText(resp)
           IN  /\ Http("update", args.connector, 0, sent, resp)
               /\ result' = [kind |-> "text", val |-> got.r]
               /\ e' = got.e
  /\ pc' = "print"
  /\ UNCHANGED << command, argv, out, list, matches, i, config, status, j, exitCode >>
  /\ UNCHANGED << others, registryVars >>

\* the value another client writes
OtherValue == << "o" >>

\* Another client of the same worker updating one key of a connector's
\* configuration (Update: PUT connectors/{name}/config) while "scale" runs.
\* The worker serves it between two requests of the invocation; `after` is
\* the number of requests the invocation had issued by then.
OtherClientUpdate ==
  /\ command = "scale" /\ pc \in { "scale_get", "scale_put", "print" }
  /\ Len(others) < MaxOthers
  /\ \E k \in 1..Len(srvList) :
       \E key \in DOMAIN srvConfig[srvList[k]] :
         /\ srvConfig[srvList[k]][key] # OtherValue
         /\ srvConfig' = [srvConfig EXCEPT ![srvList[k]][key] = OtherValue]
         /\ others' = Append(others, [name |-> srvList[k], key |-> key,
                                      val |-> OtherValue, after |-> Len(reqs)])
  /\ UNCHANGED << command, argv, pc, srvList, srvStatus, reqs, out, result, e,
                  list, matches, i, config, status, j, exitCode, registryVars >>

(***************************************************************************)
(* handleCreateCommand, handleUpdateCommand                                *)
(***************************************************************************)
\* readConnectorConfig: the configuration the -config text holds; a text
\* that is no JSON ends the process with exit code 1
readConnectorConfig(args) ==
  IF args.json.valid
  THEN [exit |-> FALSE,
        config |-> [name |-> args.json.name, config |-> ConfigWithTasksMax(args.json.name)]]
  ELSE [exit |-> TRUE, config |-> ZeroConfig]

\* result, e = client.Create(readConnectorConfig(args)), or
\* result, e = client.Update(ConnectorConfig{Name: *args.connector, Config: config.Config})
SubmitConfig(op, n, cfg) ==
  IF cfg.exit
  THEN /\ out' = Append(out, Line("stderr", "invalid-config", << >>))
       /\ exitCode' = 1
       /\ pc' = "exit"
       /\ UNCHANGED << server, reqs, result, e >>
  ELSE /\ \E code \in Codes(op, n) :
            LET resp == Reply(op, n, Marshal(cfg.config.config), code)
                got == ClientText(resp)
            IN  /\ Http(op, n, 0, Marshal(cfg.config.config), resp)
                /\ result' = [kind |-> "text", val |-> got.r]
                /\ e' = got.e
       /\ pc' = "print"
       /\ UNCHANGED << out, exitCode >>

HandleCreate ==
  /\ pc = "create"
  /\ LET cfg == readConnectorConfig(Parse(argv))
     IN  SubmitConfig("create", cfg.config.name, cfg)
  /\ UNCHANGED << command, argv, list, matches, i, config, status, j, others, registryVars >>

HandleUpdate ==
  /\ pc = "update"
  /\ SubmitConfig("update", Parse(argv).connector, readConnectorConfig(Parse(argv)))
  /\ UNCHANGED << command, argv, list, matches, i, config, status, j, others, registryVars >>

(***************************************************************************)
(* handleCommonsCommand                                                    *)
(***************************************************************************)
\* case "version": result, e = client.Version()
Version ==
  /\ pc = "common" /\ command = "version"
  /\ \E code \in Codes("version", << >>) :
       LET resp == Reply("version", << >>, << >>, code)
           got == ClientText(resp)
       IN  /\ Http("version", << >>, 0, << >>, resp)
           /\ result' = [kind |-> "text", val |-> got.r]
           /\ e' = got.e
  /\ pc' = "print"
  /\ UNCHANGED << command, argv, out, list, matches, i, config, status, j, exitCode >>
  /\ UNCHANGED << others, registryVars >>

\* case "plugins": result, e = client.Plugins()
Plugins ==
  /\ pc = "common" /\ command = "plugins"
  /\ \E code \in Codes("plugins", << >>) :
       LET resp == Reply("plugins", << >>, << >>, code)
           got == ClientText(resp)
       IN  /\ Http("plugins", << >>, 0, << >>, resp)
           /\ result' = [kind |-> "text", val |-> got.r]
           /\ e' = got.e
  /\ pc' = "print"
  /\ UNCHANGED << command, argv, out, list, matches, i, config, status, j, exitCode >>
  /\ UNCHANGED << others, registryVars >>

\* case "delete-all": connectors, e := client.List() declares an e local to
\* the case clause; the named result e stays nil whatever happens
DeleteAllList ==
  /\ pc = "common" /\ command = "delete-all"
  /\ \E code \in Codes("list", << >>) :
       LET resp == Reply("list", << >>, << >>, code)
           got == ClientDecode(resp, << >>)
       IN  /\ Http("list", << >>, 0, << >>, resp)
           /\ matches' = got.r
           /\ pc' = IF got.e = NoErr /\ Len(got.r) > 0 THEN LoopPc(command) ELSE "print"
  /\ UNCHANGED << command, argv, out, result, e, list, i, config, status, j, exitCode >>
  /\ UNCHANGED << others, registryVars >>

(***************************************************************************)
(* printOutputAndExit, and the return of main                              *)
(***************************************************************************)
PrintOutputAndExit ==
  /\ pc = "print"
  /\ IF e # NoErr
     THEN /\ out' = Append(out, [stream |-> "stdout", msg |-> "error",
                                 name |-> e.name, val |-> e])
          /\ exitCode' = 1
     ELSE IF result.kind # "nil"
     THEN /\ out' = Append(out, [stream |-> "stdout", msg |-> "result",
                                 name |-> << >>, val |-> result.val])
          /\ exitCode' = 0
     ELSE /\ out' = out
          /\ exitCode' = 0
  /\ pc' = "exit"
  /\ UNCHANGED << command, argv, server, reqs, result, e, list, matches, i,
                  config, status, j >>
  /\ UNCHANGED << others, registryVars >>

Next ==
  \/ Validates
  \/ Find
  \/ CmdConfig
  \/ CmdStatus
  \/ CmdTasks
  \/ CmdResume
  \/ CmdPause
  \/ DeleteGetConfig
  \/ DeleteDelete
  \/ RestartStatus
  \/ RestartTask
  \/ ListAll
  \/ ListFind
  \/ ListStatus
  \/ ScaleGetConfig
  \/ ScaleUpdate
  \/ OtherClientUpdate
  \/ HandleCreate
  \/ HandleUpdate
  \/ Version
  \/ Plugins
  \/ DeleteAllList
  \/ PrintOutputAndExit

Spec == Init /\ [][Next]_vars

(***************************************************************************)
(* cmd/schemaregistrycli: the schema registry CLI.  -host and -port keep   *)
(* their defaults, -pretty and -schema.url are not given.                  *)
(***************************************************************************)
L_NONE == << "N","O","N","E" >>
L_FULL == << "F","U","L","L" >>
L_FORWARD == << "F","O","R","W","A","R","D" >>
L_BACKWARD == << "B","A","C","K","W","A","R","D" >>

\* values := []string{"NONE", "FULL", "FORWARD", "BACKWARD"}
Levels == << L_NONE, L_FULL, L_FORWARD, L_BACKWARD >>

\* values of -level; the empty string is the flag's default
LevelArgs == { << >>, L_NONE, L_BACKWARD, << "f","u","l","l" >> }

Sub_s == << "s" >>
Sub_t == << "t" >>

\* values of -subject; the empty string is the flag's default
SubjectArgs == { << >>, Sub_s, Sub_t }

\* Schemas: Schema_ok is compatible with Schema_v1 under every level,
\* Schema_bad under NONE alone.
Schema_v1 == << "1" >>
Schema_ok == << "2" >>
Schema_bad == << "x" >>

\* values of -schema; the empty string is the flag's default
SchemaArgs == { << >>, Schema_ok, Schema_bad }

File_ok == << "o","k" >>
File_missing == << "n","o" >>

\* values of -schema.json; the empty string is the flag's default
SchemaJsonArgs == { << >>, File_ok, File_missing }

\* ioutil.ReadFile: File_ok holds Schema_ok, File_missing cannot be read
ReadFile(path) ==
  IF path = File_ok THEN [err |-> FALSE, data |-> Schema_ok]
                    ELSE [err |-> TRUE, data |-> << >>]

RegistryCommands ==
  { "register", "exists", "test", "compatibility", "set-compatibility" }

\* the commands whose ArgParser was built withSchemaArg
SchemaCommands == { "register", "exists", "test" }

\* the validators of the command's ArgParser, in the order they were added
\* (those of host and port hold for the defaults)
RegistryValidators(cmd) ==
  IF cmd = "set-compatibility"
  THEN << [check |-> "CheckNotNull", name |-> "subject"],
          [check |-> "CheckNotNull", name |-> "level"],
          [check |-> "CheckValueIn", name |-> "level"] >>
  ELSE << [check |-> "CheckNotNull", name |-> "subject"] >>

\* CheckNotNull.Apply: len(p.arg(args)) > 0
CheckNotNull(v, args) == Len(args[v.name]) > 0

\* CheckValueIn.Apply: p.arg(args) is one of p.values
CheckValueIn(v, args) == \E k \in 1..Len(Levels) : args[v.name] = Levels[k]

RegistryValidatorApply(v, args) ==
  IF v.check = "CheckNotNull" THEN CheckNotNull(v, args) ELSE CheckValueIn(v, args)

\* evaluateSchemaArg: the reader of the last source given, a nil reader when
\* none is; reader.Read on the nil reader panics, and so does a Read error
evaluateSchemaArg(args) ==
  IF args.schemaJson # << >>
  THEN LET file == ReadFile(args.schemaJson)
       IN  [panic |-> file.err, schema |-> file.data]
  ELSE IF args.schemaString # << >>
  THEN [panic |-> FALSE, schema |-> args.schemaString]
  ELSE [panic |-> TRUE, schema |-> << >>]

(***************************************************************************)
(* The schema registry's REST interface.                                   *)
(***************************************************************************)
\* the level that rules a registration under subject s
EffectiveLevel(s) ==
  IF s \in DOMAIN srvCompat /\ srvCompat[s] # << >> THEN srvCompat[s] ELSE L_BACKWARD

Compatible(s, schema) == schema # Schema_bad \/ EffectiveLevel(s) = L_NONE

\* the status codes the registry may answer a request with
RegistryCodes(op, s, sent) ==
  CASE op = "get-compat" ->
         IF s \in DOMAIN srvCompat /\ srvCompat[s] # << >> THEN { 200, 500 } ELSE { 404 }
    [] op = "update-compat" -> { 200, 500 }
    [] op = "register" -> IF Compatible(s, sent) THEN { 200, 500 } ELSE { 409 }
    [] OTHER -> IF s \in DOMAIN srvSchemas THEN { 200, 500 } ELSE { 404 }

\* The body of a 200.  The level of a subject is written under the key
\* "compatibility" or under the key "compatibilityLevel" (format).
RegistryOkBody(op, s, sent, format) ==
  CASE op = "get-compat" -> (format :> srvCompat[s])
    [] op = "update-compat" -> ("compatibility" :> sent)
    [] op = "register" -> [id |-> IF s \in DOMAIN srvSchemas THEN Len(srvSchemas[s]) + 1 ELSE 1]
    [] op = "exists" -> [found |-> \E k \in 1..Len(srvSchemas[s]) : srvSchemas[s][k] = sent]
    [] OTHER -> [is_compatible |-> Compatible(s, sent)]

RegistryReply(op, s, sent, format, code) ==
  [code |-> code,
   body |-> IF code = 200 THEN RegistryOkBody(op, s, sent, format) ELSE ErrBody(code, op, s)]

\* one blocking HTTP exchange with the registry
RegistryHttp(op, s, sent, resp) ==
  /\ reqs' = Append(reqs, [op |-> op, name |-> s, id |-> 0, sent |-> sent,
                           code |-> resp.code, body |-> resp.body])
  /\ srvCompat' = IF resp.code = 200 /\ op = "update-compat"
                  THEN (s :> sent) @@ srvCompat
                  ELSE srvCompat
  /\ srvSchemas' = IF resp.code = 200 /\ op = "register"
                   THEN (s :> IF s \in DOMAIN srvSchemas
                              THEN Append(srvSchemas[s], sent) ELSE << sent >>) @@ srvSchemas
                   ELSE srvSchemas

(***************************************************************************)
(* package registry: a method returns its result, or an error made of the  *)
(* body of a response whose status is in [400, 500].                       *)
(***************************************************************************)
RegistryCall(resp) ==
  IF resp.code >= 400 /\ resp.code <= 500
  THEN [r |-> << >>, e |-> resp.body]
  ELSE [r |-> resp.body, e |-> NoErr]

\* Compatibility.Value of a decoded body: the field tagged json:"compatibility"
CompatibilityValue(body) ==
  IF "compatibility" \in DOMAIN body THEN body["compatibility"] ELSE << >>

(***************************************************************************)
(* main of the schema registry CLI.                                        *)
(***************************************************************************)
RegistryInit ==
  /\ command \in RegistryCommands
  /\ argv \in [subject : SubjectArgs, level : LevelArgs, schemaString : SchemaArgs,
               schemaJson : SchemaJsonArgs, force : BOOLEAN]
  /\ command # "set-compatibility" => argv.level = << >>
  /\ command \notin SchemaCommands => argv.schemaString = << >> /\ argv.schemaJson = << >>
  /\ command # "register" => ~argv.force
  /\ srvCompat \in [{ Sub_s } -> { << >>, L_NONE, L_FULL, L_FORWARD, L_BACKWARD }]
  /\ srvSchemas = (Sub_s :> << Schema_v1 >>)
  /\ compatibilityLevel = << >>
  /\ pc = "validate"
  /\ reqs = << >>
  /\ out = << >>
  /\ result = NilResult
  /\ e = NoErr
  /\ exitCode = -1
  /\ srvList = << >>
  /\ srvConfig = << >>
  /\ srvStatus = << >>
  /\ list = << >>
  /\ matches = << >>
  /\ i = 1
  /\ config = ZeroConfig
  /\ status = ZeroStatus
  /\ j = 1
  /\ others = << >>

\* first pc of the command's block of main
RegistryHandlerPc(cmd) == IF cmd \in SchemaCommands THEN "schema" ELSE cmd

\* commandArgParser.Validates()
RegistryValidates ==
  /\ pc = "validate"
  /\ LET vs == RegistryValidators(command)
         bad == { k \in 1..Len(vs) : ~RegistryValidatorApply(vs[k], argv) }
     IN  IF bad # {}
         THEN /\ out' = Append(out, Line("stderr", "invalid", << >>))
              /\ exitCode' = 1
              /\ pc' = "exit"
         ELSE /\ pc' = RegistryHandlerPc(command)
              /\ UNCHANGED << out, exitCode >>
  /\ UNCHANGED << command, argv, reqs, result, e, connectVars, registryVars >>

\* utils.PrintJson(err.Error(), ...) or utils.PrintJson(res, ...)
PrintJson(got) ==
  IF got.e # NoErr
  THEN Append(out, [stream |-> "stdout", msg |-> "error", name |-> got.e.name, val |-> got.e])
  ELSE Append(out, [stream |-> "stdout", msg |-> "result", name |-> << >>, val |-> got.r])

\* schema := evaluateSchemaArg(args), the first statement of register,
\* exists and test; a panic ends the process with exit code 2
EvaluateSchema ==
  /\ pc = "schema"
  /\ IF evaluateSchemaArg(argv).panic
     THEN /\ out' = Append(out, Line("stderr", "panic", << >>))
          /\ exitCode' = 2
          /\ pc' = "exit"
     ELSE /\ pc' = IF command = "register"
                   THEN (IF argv.force THEN "reg_get" ELSE "reg_register")
                   ELSE command
          /\ UNCHANGED << out, exitCode >>
  /\ UNCHANGED << command, argv, reqs, result, e, connectVars, registryVars >>

\* compatibility, err := client.GetSubjectCompatibility(*args.subject)
RegisterGetCompatibility ==
  /\ pc = "reg_get"
  /\ \E code \in RegistryCodes("get-compat", argv.subject, << >>) :
       \E format \in { "compatibility", "compatibilityLevel" } :
         LET resp == RegistryReply("get-compat", argv.subject, << >>, format, code)
             got == RegistryCall(resp)
         IN  /\ RegistryHttp("get-compat", argv.subject, << >>, resp)
             /\ IF got.e = NoErr
                THEN /\ compatibilityLevel' = CompatibilityValue(got.r)
                     /\ pc' = IF CompatibilityValue(got.r) # L_NONE
                              THEN "reg_none" ELSE "reg_register"
                ELSE /\ compatibilityLevel' = compatibilityLevel
                     /\ pc' = "reg_register"
  /\ UNCHANGED << command, argv, out, result, e, exitCode, connectVars >>

\* client.UpdateSubjectCompatibility(*args.subject, registry.Compatibility{Value: "NONE"})
RegisterSetNone ==
  /\ pc = "reg_none"
  /\ \E code \in RegistryCodes("update-compat", argv.subject, L_NONE) :
       RegistryHttp("update-compat", argv.subject, L_NONE,
                    RegistryReply("update-compat", argv.subject, L_NONE, "", code))
  /\ pc' = "reg_register"
  /\ UNCHANGED << command, argv, out, result, e, exitCode, compatibilityLevel, connectVars >>

\* the condition of the restoring update
Restores == argv.force /\ Len(compatibilityLevel) > 0 /\ compatibilityLevel # L_NONE

\* a registration that restores the level only when it succeeded
RegisterRegisterRestoreOnSuccess ==
  /\ pc = "reg_register"
  /\ LET schema == evaluateSchemaArg(argv).schema IN
     \E code \in RegistryCodes("register", argv.subject, schema) :
       LET resp == RegistryReply("register", argv.subject, schema, "", code)
           got == RegistryCall(resp)
       IN  /\ RegistryHttp("register", argv.subject, schema, resp)
           /\ out' = PrintJson(got)
           /\ IF Restores /\ got.e = NoErr
              THEN pc' = "reg_restore" /\ exitCode' = exitCode
              ELSE pc' = "exit" /\ exitCode' = 0
  /\ UNCHANGED << command, argv, result, e, compatibilityLevel, connectVars >>

\* res, err := client.Register(*args.subject, schema), printed; without a
\* level to restore main goes on to os.Exit(0)
RegisterRegister ==
  /\ pc = "reg_register"
  /\ LET schema == evaluateSchemaArg(argv).schema IN
     \E code \in RegistryCodes("register", argv.subject, schema) :
       LET resp == RegistryReply("register", argv.subject, schema, "", code)
           got == RegistryCall(resp)
       IN  /\ RegistryHttp("register", argv.subject, schema, resp)
           /\ out' = PrintJson(got)
  /\ IF Restores
     THEN pc' = "reg_restore" /\ exitCode' = exitCode
     ELSE pc' = "exit" /\ exitCode' = 0
  /\ UNCHANGED << command, argv, result, e, compatibilityLevel, connectVars >>

\* the second update setting the registry's default level instead of the level read
RegisterRestoreDefault ==
  /\ pc = "reg_restore"
  /\ \E code \in RegistryCodes("update-compat", argv.subject, L_BACKWARD) :
       RegistryHttp("update-compat", argv.subject, L_BACKWARD,
                    RegistryReply("update-compat", argv.subject, L_BACKWARD, "", code))
  /\ pc' = "exit"
  /\ exitCode' = 0
  /\ UNCHANGED << command, argv, out, result, e, compatibilityLevel, connectVars >>

\* client.UpdateSubjectCompatibility(*args.subject,
\* registry.Compatibility{Value: compatibilityLevel}), then os.Exit(0)
RegisterRestore ==
  /\ pc = "reg_restore"
  /\ \E code \in RegistryCodes("update-compat", argv.subject, compatibilityLevel) :
       RegistryHttp("update-compat", argv.subject, compatibilityLevel,
                    RegistryReply("update-compat", argv.subject, compatibilityLevel, "", code))
  /\ pc' = "exit"
  /\ exitCode' = 0
  /\ UNCHANGED << command, argv, out, result, e, compatibilityLevel, connectVars >>

\* The commands of one call: the call, its error or its result printed,
\* then os.Exit(0).
\*   exists:            client.Exists(*args.subject, schema)
\*   test:              client.CheckSubjectCompatibility(*args.subject, *args.version, schema)
\*   compatibility:     client.GetSubjectCompatibility(*args.subject)
\*   set-compatibility: client.UpdateSubjectCompatibility(*args.subject, compatibility)
OneCall(op, sent) ==
  /\ \E code \in RegistryCodes(op, argv.subject, sent) :
       LET resp == RegistryReply(op, argv.subject, sent, "compatibility", code)
       IN  /\ RegistryHttp(op, argv.subject, sent, resp)
           /\ out' = PrintJson(RegistryCall(resp))
  /\ pc' = "exit"
  /\ exitCode' = 0
  /\ UNCHANGED << command, argv, result, e, compatibilityLevel, connectVars >>

Exists ==
  /\ pc = "exists"
  /\ OneCall("exists", evaluateSchemaArg(argv).schema)

TestCompatibility ==
  /\ pc = "test"
  /\ OneCall("test", evaluateSchemaArg(argv).schema)

GetCompatibility ==
  /\ pc = "compatibility"
  /\ OneCall("get-compat", << >>)

SetCompatibility ==
  /\ pc = "set-compatibility"
  /\ OneCall("update-compat", argv.level)

\* a signal handler that puts the level read back before the process ends
InterruptWithRestore ==
  /\ pc # "exit"
  /\ pc' = "exit"
  /\ exitCode' = 130
  /\ srvCompat' = IF Restores THEN (argv.subject :> compatibilityLevel) @@ srvCompat
                  ELSE srvCompat
  /\ UNCHANGED << command, argv, reqs, out, result, e, srvSchemas,
                  compatibilityLevel, connectVars >>

\* The process is killed (SIGINT) between two steps: main installs no
\* signal handler and defers nothing, so nothing more is done.
Interrupt ==
  /\ pc # "exit"
  /\ pc' = "exit"
  /\ exitCode' = 130
  /\ UNCHANGED << command, argv, reqs, out, result, e, connectVars, registryVars >>

RegistryNext ==
  \/ RegistryValidates
  \/ EvaluateSchema
  \/ RegisterGetCompatibility
  \/ RegisterSetNone
  \/ RegisterRegister
  \/ RegisterRestore
  \/ Exists
  \/ TestCompatibility
  \/ GetCompatibility
  \/ SetCompatibility
  \/ Interrupt

SpecRegistry == RegistryInit /\ [][RegistryNext]_vars

(***************************************************************************)
(* package connect, method by method: one call of a method of              *)
(* ConnectRestClient answered with any status code, by a body that is the  *)
(* JSON the method decodes or is not.                                      *)
(***************************************************************************)
StatusCodes == 100..MaxStatus

\* List, Status, GetConfig: json.Unmarshal of the body, panic(err) when it fails
DecodeMethods == { "list", "status", "config" }

\* Version, Plugins, Tasks, Create, Update: r = string(response)
TextMethods == { "version", "plugins", "tasks", "create", "update" }

\* Pause, Delete, Resume, Restart
DoMethods == { "pause", "delete", "resume", "restart" }

ClientMethods == DecodeMethods \cup TextMethods \cup DoMethods

ClientInit ==
  /\ command \in ClientMethods
  /\ pc = "call"
  /\ reqs = << >>
  /\ result = NilResult
  /\ e = NoErr
  /\ exitCode = -1
  /\ argv = << >>
  /\ out = << >>
  /\ srvList = << >>
  /\ srvConfig = << >>
  /\ srvStatus = << >>
  /\ list = << >>
  /\ matches = << >>
  /\ i = 1
  /\ config = ZeroConfig
  /\ status = ZeroStatus
  /\ j = 1
  /\ others = << >>
  /\ srvCompat = << >>
  /\ srvSchemas = << >>
  /\ compatibilityLevel = << >>

\* the response to the method's request: its status code, its body, and
\* whether the body is JSON of the type the method decodes
Answered(code, json) ==
  reqs' = Append(reqs, [op |-> command, name |-> N_a, id |-> 0, sent |-> << >>,
                        code |-> code, json |-> json,
                        body |-> ErrBody(code, command, N_a)])

CallDecode ==
  /\ pc = "call" /\ command \in DecodeMethods
  /\ \E code \in StatusCodes, json \in BOOLEAN :
       LET got == ClientDecode([code |-> code, body |-> ErrBody(code, command, N_a)],
                               ErrBody(0, "", << >>))
       IN  /\ Answered(code, json)
           /\ IF got.e = NoErr /\ ~json
              THEN pc' = "exit" /\ exitCode' = 2 /\ UNCHANGED << result, e >>
              ELSE /\ pc' = "returned"
                   /\ result' = [kind |-> "decoded", val |-> got.r]
                   /\ e' = got.e
                   /\ exitCode' = exitCode
  /\ UNCHANGED << command, argv, out, connectVars, registryVars >>

CallText ==
  /\ pc = "call" /\ command \in TextMethods
  /\ \E code \in StatusCodes, json \in BOOLEAN :
       LET got == ClientText([code |-> code, body |-> ErrBody(code, command, N_a)])
       IN  /\ Answered(code, json)
           /\ result' = [kind |-> "text", val |-> got.r]
           /\ e' = got.e
  /\ pc' = "returned"
  /\ UNCHANGED << command, argv, out, exitCode, connectVars, registryVars >>

CallDo ==
  /\ pc = "call" /\ command \in DoMethods
  /\ \E code \in StatusCodes, json \in BOOLEAN :
       /\ Answered(code, json)
       /\ e' = ClientDo([code |-> code, body |-> ErrBody(code, command, N_a)])
  /\ pc' = "returned"
  /\ UNCHANGED << command, argv, out, result, exitCode, connectVars, registryVars >>

ClientNext ==
  \/ CallDecode
  \/ CallText
  \/ CallDo

SpecClient == ClientInit /\ [][ClientNext]_vars

(***************************************************************************)
(* Properties.                                                             *)
(***************************************************************************)
\* indices of the requests with operation op for connector n
Requests(op, n) == { k \in 1..Len(reqs) : reqs[k].op = op /\ reqs[k].name = n }

\* indices of the requests with operation op for connector n that failed
Failed(op, n) == { k \in Requests(op, n) : reqs[k].code # 200 }

\* indices of the lines with message msg
Lines(msg) == { k \in 1..Len(out) : out[k].msg = msg }

\* the list call was answered with the names of the worker's connectors
Listed == Len(reqs) >= 1 /\ reqs[1].op = "list" /\ reqs[1].code = 200

\* C1: "delete" over three matched connectors, the DELETE of the second one
\* failing and every request for the first and the third being served:
\* all three DELETE requests are issued, the first and the third connector
\* are gone, and the output holds one error entry, for the second connector,
\* and two confirmations of a deletion.
C1_BulkDeleteReportsTheError ==
  ( /\ command = "delete" /\ pc = "exit"
    /\ Len(matches) = 3
    /\ Failed("delete", matches[2]) # {}
    /\ \A k \in 1..Len(reqs) :
         reqs[k].name \in { matches[1], matches[3] } => reqs[k].code = 200 )
  => /\ \A m \in 1..3 : Requests("delete", matches[m]) # {}
     /\ ~InList(matches[1]) /\ ~InList(matches[3])
     /\ Cardinality(Lines("deleted")) = 2
     /\ Cardinality(Lines("error")) = 1
     /\ \A k \in Lines("error") : out[k].name = matches[2]

\* what the run does in that case: it goes on, reports no error and exits 0
BulkDeleteDropsTheError ==
  ( /\ command = "delete" /\ pc = "exit"
    /\ Len(matches) = 3
    /\ Failed("delete", matches[2]) # {}
    /\ \A k \in 1..Len(reqs) :
         reqs[k].name \in { matches[1], matches[3] } => reqs[k].code = 200 )
  => /\ \A m \in 1..3 : Requests("delete", matches[m]) # {}
     /\ ~InList(matches[1]) /\ ~InList(matches[3])
     /\ Cardinality(Lines("deleted")) = 2
     /\ Cardinality(Lines("error")) = 0
     /\ exitCode = 0

\* position of name n in the listed names l, 0 when it is not listed
Position(l, n) ==
  IF \E k \in 1..Len(l) : l[k] = n THEN CHOOSE k \in 1..Len(l) : l[k] = n ELSE 0

\* C2: "delete-all" takes the listed connectors in list order and stops at
\* the first connector whose deletion fails: the failing request is the last
\* request of the run, every earlier connector of the list is deleted, and
\* every later one is still there and gets neither a configuration fetch nor
\* a DELETE request.
C2_DeleteAllFailsFast ==
  (command = "delete-all" /\ Listed) =>
    LET l == reqs[1].body
    IN  /\ \A k \in 2..Len(reqs) :
              /\ reqs[k].op \in { "config", "delete" }
              /\ Position(l, reqs[k].name) > 0
              /\ k > 2 => Position(l, reqs[k - 1].name) <= Position(l, reqs[k].name)
              /\ reqs[k].op = "delete" =>
                   reqs[k - 1].op = "config" /\ reqs[k - 1].name = reqs[k].name
        /\ \A k \in 2..Len(reqs) :
              reqs[k].code # 200 =>
                /\ k = Len(reqs)
                /\ pc \in { "print", "exit" }
                /\ \A m \in 1..Len(l) :
                     /\ m < Position(l, reqs[k].name) =>
                          ~InList(l[m]) /\ Requests("delete", l[m]) # {}
                     /\ m > Position(l, reqs[k].name) =>
                          /\ InList(l[m])
                          /\ Requests("config", l[m]) = {}
                          /\ Requests("delete", l[m]) = {}
        /\ pc = "exit" /\ (\A k \in 1..Len(reqs) : reqs[k].code = 200) =>
             \A m \in 1..Len(l) : ~InList(l[m])

\* a "delete-all" over three connectors whose second deletion failed
C2_Witness ==
  /\ command = "delete-all" /\ pc = "exit" /\ Listed
  /\ Len(reqs[1].body) = 3
  /\ Failed("delete", reqs[1].body[2]) # {}
  /\ ~InList(reqs[1].body[1])
  /\ InList(reqs[1].body[3])

Recognised(state) ==
  CASE state = << "r","u","n","n","i","n","g" >> -> S_RUNNING
    [] state = << "F","a","i","l","e","d" >> -> S_FAILED
    [] state = S_PAUSED -> S_PAUSED
    [] state = << "u","n","a","s","s","i","g","n","e","d" >> -> S_UNASSIGNED
    [] OTHER -> << >>

\* C4: "list" with a recognised -with-state value: when a status fetch
\* fails, no later candidate gets a status fetch, and the command ends with
\* that error: it is printed, no list of names is printed, and the exit
\* code is 1.
C4_StatusErrorSurfaces ==
  (command = "list" /\ Recognised(argv.state) # << >> /\ pc = "exit") =>
    \A k \in 2..Len(reqs) :
      reqs[k].code # 200 =>
        /\ k = Len(reqs)
        /\ exitCode = 1
        /\ Lines("result") = {}
        /\ Cardinality(Lines("error")) = 1

\* what the run does in that case: no later fetch, but the names collected
\* before the failure are printed as the result and the exit code is 0
StatusErrorIsDropped ==
  (command = "list" /\ Recognised(argv.state) # << >> /\ pc = "exit") =>
    \A k \in 2..Len(reqs) :
      reqs[k].code # 200 =>
        /\ k = Len(reqs)
        /\ exitCode = 0
        /\ Lines("error") = {}
        /\ Cardinality(Lines("result")) = 1

\* C5: a -connector value equal, character for character, to a listed name
\* selects that name and no other listed name.
C5_ExactNameMatchesItself ==
  ( /\ command \in ConnectorCommands /\ Listed
    /\ argv.connector \in Names
    /\ Position(reqs[1].body, argv.connector) > 0 )
  => matches = << argv.connector >>

\* C6: the pattern .* selects the whole list: every listed name, once, in
\* the order of the list call.
C6_DotStarMatchesAll ==
  (command \in ConnectorCommands /\ Listed /\ argv.connector = P_all)
  => matches = reqs[1].body

\* .* selected three listed connectors
C6_Witness ==
  /\ command \in ConnectorCommands /\ Listed /\ argv.connector = P_all
  /\ Len(reqs[1].body) = 3
  /\ Len(matches) = 3

\* C7: "list" with a -with-state value that is none of the four states
\* (here "bogus" and the empty string): the only request is the list call,
\* no status is fetched, and the result is the list the call returned.
C7_UnknownStateListsAll ==
  (command = "list" /\ Recognised(argv.state) = << >>) =>
    /\ \A k \in 1..Len(reqs) : reqs[k].op = "list" /\ k = 1
    /\ (pc \in { "print", "exit" } /\ Listed) =>
         /\ result.kind = "names" /\ result.val = reqs[1].body
         /\ e = NoErr
    /\ (pc = "exit" /\ Listed) =>
         /\ exitCode = 0
         /\ Len(out) = 1 /\ out[1].msg = "result" /\ out[1].val = reqs[1].body

\* "list -with-state bogus" printed the three names of the worker
C7_Witness ==
  /\ command = "list" /\ argv.state = << "b","o","g","u","s" >>
  /\ pc = "exit" /\ Listed
  /\ Len(reqs[1].body) = 3
  /\ out[1].val = reqs[1].body

\* C8: "list" with one of the four states in any letter case, every request
\* served: the requests are the list call and then one status fetch for
\* each listed name, in list order, and a name is in the result exactly
\* when the state of its connector or of one of its tasks is that state.
C8_StateFilter ==
  ( /\ command = "list" /\ Recognised(argv.state) # << >>
    /\ pc \in { "print", "exit" }
    /\ \A k \in 1..Len(reqs) : reqs[k].code = 200 )
  => LET l == reqs[1].body
         wanted == Recognised(argv.state)
         hit(k) == \/ reqs[k + 1].body.connector.state = wanted
                   \/ \E t \in 1..Len(reqs[k + 1].body.tasks) :
                        reqs[k + 1].body.tasks[t].state = wanted
     IN  /\ Len(reqs) = Len(l) + 1
         /\ \A k \in 1..Len(l) : reqs[k + 1].op = "status" /\ reqs[k + 1].name = l[k]
         /\ result.kind = "names"
         /\ \A k \in 1..Len(l) : hit(k) <=> Position(result.val, l[k]) > 0
         /\ \A x \in 1..Len(result.val) : Position(l, result.val[x]) > 0

\* a name selected for the state of one of its tasks, the state being typed
\* in lower case
C8_Witness ==
  /\ command = "list" /\ argv.state = << "r","u","n","n","i","n","g" >>
  /\ pc = "exit"
  /\ \A k \in 1..Len(reqs) : reqs[k].code = 200
  /\ Len(reqs) = 4
  /\ \E k \in 2..4 :
       /\ reqs[k].body.connector.state # S_RUNNING
       /\ Position(result.val, reqs[k].name) > 0
  /\ \E k \in 2..4 : Position(result.val, reqs[k].name) = 0

\* the number a string of decimal digits writes
RECURSIVE DecimalValue(_)
DecimalValue(s) ==
  IF Len(s) = 0 THEN 0
  ELSE 10 * DecimalValue(SubSeq(s, 1, Len(s) - 1))
       + (CHOOSE d \in 0..9 : DigitChars[d + 1] = s[Len(s)])

IsDecimal(s) ==
  /\ Len(s) > 0
  /\ \A k \in 1..Len(s) : \E d \in 0..9 : DigitChars[d + 1] = s[k]
  /\ Len(s) > 1 => s[1] # "0"

\* the value the body of an update request gives to key
SentValue(sent, key) == sent[CHOOSE x \in 1..Len(sent) : sent[x][1] = key][2]

\* C9: "scale" with n > 0: the update request goes to the connector named by
\* -connector, right after the fetch of its configuration C, and its body
\* holds every key of C other than tasks.max with the value it has in C,
\* tasks.max with the decimal string of n, and no other key.
C9_ScaleKeepsOtherKeys ==
  (command = "scale") =>
    \A k \in 1..Len(reqs) :
      reqs[k].op = "update" =>
        /\ k = 2
        /\ reqs[1].op = "config" /\ reqs[1].code = 200
        /\ reqs[1].name = argv.connector /\ reqs[2].name = argv.connector
        /\ argv.tasks.given /\ argv.tasks.val > 0
        /\ LET C == reqs[1].body.config
               sent == reqs[2].sent
               keys == { sent[x][1] : x \in 1..Len(sent) }
           IN  /\ Cardinality(keys) = Len(sent)
               /\ keys = DOMAIN C \cup { "tasks.max" }
               /\ \A key \in DOMAIN C \ { "tasks.max" } :
                    SentValue(sent, key) = C[key]
               /\ IsDecimal(SentValue(sent, "tasks.max"))
               /\ DecimalValue(SentValue(sent, "tasks.max")) = argv.tasks.val

\* tasks.max "2" scaled to 5: the body holds tasks.max "5" and the topics of C
C9_Witness ==
  /\ command = "scale" /\ argv.tasks.val = 5
  /\ Len(reqs) = 2 /\ reqs[2].op = "update" /\ reqs[2].code = 200
  /\ reqs[1].body.config["tasks.max"] = << "2" >>
  /\ SentValue(reqs[2].sent, "tasks.max") = << "5" >>
  /\ SentValue(reqs[2].sent, "topics") = reqs[1].body.config["topics"]
  /\ srvConfig[argv.connector]["tasks.max"] = << "5" >>

\* C10: "scale" with -tasks-max zero, negative or not given: the run issues
\* no HTTP request and ends in the validation with exit code 1.
C10_ScaleRejectsNonPositive ==
  (command = "scale" /\ (~argv.tasks.given \/ argv.tasks.val <= 0)) =>
    /\ reqs = << >>
    /\ pc \in { "validate", "exit" }
    /\ pc = "exit" => exitCode = 1

\* "scale -connector a -tasks-max 0" ended with exit code 1
C10_Witness ==
  /\ command = "scale" /\ argv.connector = N_a
  /\ argv.tasks = [given |-> TRUE, val |-> 0]
  /\ pc = "exit" /\ exitCode = 1
  /\ reqs = << >>


\* the updates other clients made to a key other than tasks.max of the scaled
\* connector after the fetch of its configuration and before the update
ChangedBetween ==
  { k \in 1..Len(others) :
      /\ others[k].name = argv.connector
      /\ others[k].key # "tasks.max"
      /\ others[k].after = 1 }

\* the updates other clients made once scale's update had been answered
ChangedAfter == { k \in 1..Len(others) : others[k].after = 2 }

\* C11: "scale" whose fetch succeeded always submits its update, whatever
\* other clients did to the connector meanwhile; when another client changed
\* a key other than tasks.max between the fetch and the update, the update
\* carries for that key the value scale read, and once it is served the
\* worker holds that value again: the other client's change is lost.
C11_ScaleOverwritesConcurrentChange ==
  (command = "scale" /\ Len(reqs) >= 1 /\ reqs[1].code = 200) =>
    /\ pc = "exit" => Len(reqs) = 2
    /\ Len(reqs) >= 2 =>
         /\ reqs[2].op = "update" /\ reqs[2].name = argv.connector
         /\ \A k \in ChangedBetween :
              LET read == reqs[1].body.config[others[k].key] IN
              /\ read # others[k].val
              /\ SentValue(reqs[2].sent, others[k].key) = read
              /\ (reqs[2].code = 200 /\ ChangedAfter = {}) =>
                   srvConfig[argv.connector][others[k].key] = read

\* the run ended with exit code 0 and the topics another client wrote between
\* the fetch and the update are gone
C11_Witness ==
  /\ command = "scale" /\ pc = "exit" /\ exitCode = 0
  /\ Len(reqs) = 2 /\ reqs[2].code = 200
  /\ \E k \in ChangedBetween :
       /\ others[k].key = "topics"
       /\ srvConfig[argv.connector]["topics"] # others[k].val
       /\ srvConfig[argv.connector]["topics"] = reqs[1].body.config["topics"]


\* the level the first request of a forced registration read, "" when the
\* read failed or gave no level
LevelRead ==
  IF Len(reqs) >= 1 /\ reqs[1].op = "get-compat" /\ reqs[1].code = 200
  THEN CompatibilityValue(reqs[1].body)
  ELSE << >>

\* C12: "register -force" that read a level L other than NONE issues, for
\* the subject, the update to NONE, then the register call, then the update
\* to L, and nothing else; a run that reaches os.Exit(0) has issued all of
\* them, whatever the registry answered to the register call.
C12_ForceBracketsRegister ==
  (command = "register" /\ argv.force /\ LevelRead \notin { << >>, L_NONE }) =>
    /\ \A k \in 1..Len(reqs) : reqs[k].name = argv.subject
    /\ Len(reqs) <= 4
    /\ Len(reqs) >= 2 => reqs[2].op = "update-compat" /\ reqs[2].sent = L_NONE
    /\ Len(reqs) >= 3 => reqs[3].op = "register"
    /\ Len(reqs) >= 4 => reqs[4].op = "update-compat" /\ reqs[4].sent = LevelRead
    /\ (pc = "exit" /\ exitCode = 0) => Len(reqs) = 4

\* a forced registration under BACKWARD whose register call failed and
\* whose second update put BACKWARD back
C12_Witness ==
  /\ command = "register" /\ argv.force /\ LevelRead = L_BACKWARD
  /\ pc = "exit" /\ exitCode = 0
  /\ Len(reqs) = 4
  /\ reqs[2].code = 200 /\ reqs[3].code # 200 /\ reqs[4].code = 200
  /\ Lines("error") # {}
  /\ srvCompat[argv.subject] = L_BACKWARD


\* the forced registration was interrupted once the update to NONE had been
\* served and before the restoring update was issued
InterruptedUnderNone ==
  /\ command = "register" /\ argv.force
  /\ pc = "exit" /\ exitCode = 130
  /\ Len(reqs) \in { 2, 3 }
  /\ reqs[2].op = "update-compat" /\ reqs[2].sent = L_NONE /\ reqs[2].code = 200

\* C19: a forced registration interrupted after the update to NONE was
\* served and before the restoring update is issued leaves the subject at
\* NONE, and the invocation takes no further step.
C19_InterruptLeavesNone ==
  InterruptedUnderNone =>
    /\ srvCompat[argv.subject] = L_NONE
    /\ ~ENABLED RegistryNext

\* a subject that was under BACKWARD is left under NONE
C19_Witness ==
  /\ InterruptedUnderNone
  /\ LevelRead = L_BACKWARD
  /\ srvCompat[argv.subject] = L_NONE


\* a validator of the command's ArgParser rejects the arguments
ArgsRejected ==
  \E k \in 1..Len(Validators(command)) :
    ~ValidatorApply(Validators(command)[k], Parse(argv))

\* the arguments pass the validators and still cannot be used: a -connector
\* text that does not compile, a -config text that is no JSON
ArgsUnusable ==
  \/ command \in ConnectorCommands /\ ~Compiles(argv.connector)
  \/ command \in { "create", "update" } /\ ~argv.json.valid

\* a request of the invocation was answered with an error response
SomeCallFailed ==
  \E k \in 1..Len(reqs) : reqs[k].code >= 400 /\ reqs[k].code <= 500

\* C13: a run of the Kafka Connect CLI whose validators reject the
\* arguments ends with exit code 1; a run with usable arguments ends with
\* exit code 1 when one of its HTTP calls was answered with an error and
\* with exit code 0 when none was.
C13_ExitCodeTellsErrors ==
  pc = "exit" =>
    /\ ArgsRejected => exitCode = 1
    /\ (~ArgsRejected /\ ~ArgsUnusable) =>
         exitCode = (IF SomeCallFailed THEN 1 ELSE 0)

\* What the code does instead: a run with usable arguments ends with exit
\* code 1 only when the named result e of its handler is not nil, which is
\* the error of the last call assigned to it.
ExitCodeTellsLastError ==
  (pc = "exit" /\ ~ArgsRejected /\ ~ArgsUnusable) =>
    /\ exitCode = (IF e # NoErr THEN 1 ELSE 0)
    /\ command = "delete-all" => exitCode = 0

\* The schema registry CLI: a run that is neither rejected by a validator,
\* nor interrupted, nor ended by a panic ends with exit code 0, whatever
\* the registry answered.
RegistryExitsZero ==
  (pc = "exit" /\ reqs # << >> /\ exitCode # 130) => exitCode = 0

\* a registry command that ended with exit code 0 after an error response
RegistryExitsZero_Witness ==
  pc = "exit" /\ exitCode = 0 /\ SomeCallFailed /\ Lines("error") # {}


\* the method returned no result: the zero value of its result type
NoPayload ==
  CASE command \in DecodeMethods -> result.val = ErrBody(0, "", << >>)
    [] command \in TextMethods -> result.val.text = << >>
    [] OTHER -> result = NilResult

\* the method returned the body q as its result
HasPayload(q) ==
  CASE command \in DecodeMethods -> result.val = q
    [] command \in TextMethods -> result.val.text = q
    [] OTHER -> result = NilResult

\* C14: requestAndGetResponse turns a response with a status code in
\* 400..500 into a nil body and an error that is the response's body, and
\* the method returns that error and no result; it turns a response with a
\* status code in 200..299 into the body and a nil error, and the method,
\* when it returns, returns a nil error and the body as its result.
C14_ErrorRange ==
  \A k \in 1..Len(reqs) :
    LET q == reqs[k]
        rr == requestAndGetResponse([code |-> q.code, body |-> q.body])
    IN  /\ (q.code >= 400 /\ q.code <= 500) =>
             /\ rr.err = q.body
             /\ rr.body = << >>
             /\ pc = "returned" /\ e = q.body /\ NoPayload
        /\ (q.code >= 200 /\ q.code <= 299) =>
             /\ rr.err = NoErr
             /\ rr.body = q.body
             /\ pc = "returned" => (e = NoErr /\ HasPayload(q.body))

\* GetConfig answered 500: the error is the body, the result is the zero value
C14_Witness ==
  /\ command = "config" /\ pc = "returned"
  /\ reqs[1].code = 500
  /\ e = reqs[1].body /\ e # NoErr
  /\ NoPayload

\* C15: a method answered with a status code outside 200..299 returns an
\* error to its caller, and returns a result only for a code in 200..299.
C15_NonSuccessIsAnError ==
  \A k \in 1..Len(reqs) :
    (reqs[k].code < 200 \/ reqs[k].code > 299) =>
      (pc = "returned" /\ e # NoErr /\ NoPayload)

\* What the code does for the status codes outside 400..500, 503 and 302
\* among them: the method returns a nil error and the body as its result, or
\* panics when it cannot decode the body.
OutsideRangeIsSuccess ==
  \A k \in 1..Len(reqs) :
    (reqs[k].code < 400 \/ reqs[k].code > 500) =>
      IF command \in DecodeMethods /\ ~reqs[k].json
      THEN pc = "exit" /\ exitCode = 2
      ELSE pc = "returned" /\ e = NoErr /\ HasPayload(reqs[k].body)

\* List answered 503 by a JSON array returned it with a nil error
OutsideRangeIsSuccess_Witness ==
  /\ command = "list" /\ pc = "returned"
  /\ reqs[1].code = 503 /\ reqs[1].json
  /\ e = NoErr /\ HasPayload(reqs[1].body)


\* a required argument of the Kafka Connect CLI is missing or invalid: an
\* empty -connector, a -connector that is no regular expression, no
\* configuration source for create or update
ArgsInvalid ==
  \/ command \in ConnectorCommands \cup { "scale", "update" } /\ argv.connector = << >>
  \/ command \in ConnectorCommands /\ ~Compiles(argv.connector)
  \/ command \in { "create", "update" } /\ ~argv.json.given

\* C16: a run of the Kafka Connect CLI with a missing or invalid required
\* argument issues no HTTP request and ends with exit code 1 after the
\* validation error was written to stderr.
C16_InvalidArgsExitOne ==
  ArgsInvalid =>
    /\ reqs = << >>
    /\ pc = "exit" =>
         /\ exitCode = 1
         /\ Len(out) = 1 /\ out[1].stream = "stderr" /\ out[1].msg = "invalid"

\* What the code does with a -connector that is no regular expression: the
\* validators accept it, regexp.MustCompile panics, and the process ends
\* with exit code 2 before any request.
InvalidExpressionPanics ==
  (command \in ConnectorCommands /\ ~Compiles(argv.connector)) =>
    /\ reqs = << >>
    /\ pc = "exit" => (exitCode = 2 /\ Lines("invalid") = {})

\* What the registry CLI does with register, exists or test and no schema
\* source: the validators accept the arguments, evaluateSchemaArg panics,
\* and the process ends with exit code 2 (130 when interrupted before)
\* without any request.
MissingSchemaSourcePanics ==
  (/\ command \in SchemaCommands
   /\ argv.subject # << >>
   /\ argv.schemaString = << >> /\ argv.schemaJson = << >>) =>
    /\ reqs = << >>
    /\ pc = "exit" => (exitCode \in { 2, 130 } /\ Lines("invalid") = {})

\* "register -subject s" ended by the panic
MissingSchemaSourcePanics_Witness ==
  /\ command = "register" /\ argv.subject = Sub_s
  /\ argv.schemaString = << >> /\ argv.schemaJson = << >>
  /\ pc = "exit" /\ exitCode = 2


\* the lines that carry an outcome: a result or an error
Surfaced == SelectSeq(out, LAMBDA l : l.msg \in { "result", "error" })

\* the line l carries the outcome of the answered request q
Surfaces(l, q) ==
  IF q.code = 200
  THEN /\ l.msg = "result"
       /\ IF command = "tasks" THEN l.val.text = q.body ELSE l.val = q.body
  ELSE l.msg = "error" /\ l.val = q.body

\* C17: "config", "status" or "tasks" whose pattern matched k >= 1
\* connectors ends having written k outcomes, the m-th being the result or
\* the error of the request for the m-th matched connector.
C17_EveryOutcomeSurfaces ==
  (/\ command \in { "config", "status", "tasks" }
   /\ pc = "exit" /\ Listed /\ Len(matches) >= 1) =>
    /\ Len(reqs) = 1 + Len(matches)
    /\ Len(Surfaced) = Len(matches)
    /\ \A m \in 1..Len(matches) :
         /\ reqs[1 + m].name = matches[m]
         /\ Surfaces(Surfaced[m], reqs[1 + m])

\* What the code does: every matched connector is asked, in list order, and
\* the one outcome written is that of the last of them.
OnlyLastOutcomeSurfaces ==
  (/\ command \in { "config", "status", "tasks" }
   /\ pc = "exit" /\ Listed /\ Len(matches) >= 1) =>
    /\ Len(reqs) = 1 + Len(matches)
    /\ \A m \in 1..Len(matches) : reqs[1 + m].name = matches[m]
    /\ Len(Surfaced) = 1
    /\ Surfaces(Surfaced[1], reqs[Len(reqs)])

\* "status" over three connectors wrote the status of the third alone
OnlyLastOutcomeSurfaces_Witness ==
  /\ command = "status" /\ pc = "exit" /\ Listed
  /\ Len(matches) = 3 /\ Len(Surfaced) = 1
  /\ reqs[2].code = 500 /\ reqs[4].code = 200
  /\ exitCode = 0


\* the command resolves its targets through findMatchingConnectors
UsesMatcher ==
  \/ command \in ConnectorCommands /\ Compiles(argv.connector)
  \/ command = "list" /\ IsStateFilter(argv.state)

\* C18: a command that resolves its targets through the matcher issues the
\* list call first and only once; when the list call returns an error the
\* run issues no other request, the handler returns that error, and the run
\* ends having written that error with exit code 1.
C18_ListFirstFailFast ==
  (UsesMatcher /\ Len(reqs) >= 1) =>
    /\ { k \in 1..Len(reqs) : reqs[k].op = "list" } = { 1 }
    /\ reqs[1].code # 200 =>
         /\ Len(reqs) = 1
         /\ pc \in { "print", "exit" }
         /\ e = reqs[1].body
         /\ pc = "exit" =>
              /\ exitCode = 1
              /\ Len(out) = 1 /\ out[1].msg = "error" /\ out[1].val = reqs[1].body

\* "restart-failed" ended with the error of the list call
C18_Witness ==
  /\ command = "restart-failed" /\ pc = "exit" /\ exitCode = 1
  /\ Len(reqs) = 1 /\ reqs[1].op = "list" /\ reqs[1].code = 500
  /\ Lines("error") = { 1 }

\* the tasks of a status whose state is FAILED, in task order
FailedTasks(st) == SelectSeq(st.tasks, LAMBDA t : t.state = S_FAILED)

\* the loop of restart-failed has left the connector of request k behind
PastConnector(k) ==
  \/ pc \in { "print", "exit" }
  \/ \E m \in (k + 1)..Len(reqs) : reqs[m].op = "status"

\* C20: in "restart-failed" the requests that follow a served status fetch
\* are the restarts of the FAILED tasks of that status, one for each in task
\* order, for the connector the status names; the request after them is no
\* restart, and no restart is issued anywhere else.
C20_RestartsExactlyFailed ==
  command = "restart-failed" =>
    \A k \in 1..Len(reqs) :
      /\ (reqs[k].op = "status" /\ reqs[k].code = 200) =>
           LET f == FailedTasks(reqs[k].body) IN
           /\ PastConnector(k) => Len(reqs) >= k + Len(f)
           /\ \A m \in 1..Len(f) :
                k + m <= Len(reqs) =>
                  /\ reqs[k + m].op = "restart"
                  /\ reqs[k + m].name = reqs[k].name
                  /\ reqs[k + m].id = f[m].id
           /\ Len(reqs) > k + Len(f) => reqs[k + Len(f) + 1].op # "restart"
      /\ reqs[k].op = "restart" =>
           /\ k > 1
           /\ \/ reqs[k - 1].op = "restart"
              \/ reqs[k - 1].op = "status" /\ reqs[k - 1].code = 200

\* a connector with the tasks FAILED, RUNNING, FAILED: tasks 0 and 2 were
\* restarted, task 1 was not
C20_Witness ==
  /\ command = "restart-failed" /\ pc = "exit"
  /\ \E k \in 1..Len(reqs) :
       /\ reqs[k].op = "status" /\ reqs[k].code = 200
       /\ Len(reqs[k].body.tasks) = 3
       /\ Len(FailedTasks(reqs[k].body)) = 2
       /\ Len(reqs) = k + 2
       /\ reqs[k + 1].op = "restart" /\ reqs[k + 1].id = 0
       /\ reqs[k + 2].op = "restart" /\ reqs[k + 2].id = 2


\* the names of the status requests, in the order they were issued
StatusNames ==
  LET s == SelectSeq(reqs, LAMBDA q : q.op = "status")
  IN  [k \in 1..Len(s) |-> s[k].name]

\* C21: "restart-failed" whose list call succeeded keeps a nil error
\* whatever the restart calls return: the restart of every FAILED task of a
\* fetched status is issued, the status of every matched connector is
\* fetched, and the run ends with exit code 0 and no error written.
C21_RestartErrorSwallowed ==
  (command = "restart-failed" /\ Listed) =>
    /\ e = NoErr
    /\ \A k \in 1..Len(reqs) :
         (reqs[k].op = "status" /\ reqs[k].code = 200 /\ PastConnector(k)) =>
           \A m \in 1..Len(FailedTasks(reqs[k].body)) :
             /\ k + m <= Len(reqs)
             /\ reqs[k + m].op = "restart"
             /\ reqs[k + m].id = FailedTasks(reqs[k].body)[m].id
    /\ pc \in { "print", "exit" } => StatusNames = matches
    /\ pc = "exit" => (exitCode = 0 /\ Lines("error") = {})

\* the first restart of a connector failed, the second was issued, the
\* next connector was processed, and the run ended with exit code 0
C21_Witness ==
  /\ command = "restart-failed" /\ Listed
  /\ pc = "exit" /\ exitCode = 0 /\ e = NoErr
  /\ \E k \in 1..Len(reqs) :
       /\ reqs[k].op = "restart" /\ reqs[k].code # 200
       /\ k + 2 <= Len(reqs)
       /\ reqs[k + 1].op = "restart" /\ reqs[k + 1].name = reqs[k].name
       /\ reqs[k + 2].op = "status"


\* C22: in "delete" and "delete-all" every DELETE request for a connector
\* directly follows a configuration fetch for the same connector: the
\* request issued just before it is that fetch.
C22_DeletePrecededByConfigFetch ==
  \A k \in 1..Len(reqs) :
    reqs[k].op = "delete" =>
      /\ command \in { "delete", "delete-all" }
      /\ k > 1
      /\ reqs[k - 1].op = "config"
      /\ reqs[k - 1].name = reqs[k].name

\* two connectors were deleted in one run, each after its own fetch
C22_Witness ==
  /\ command \in { "delete", "delete-all" }
  /\ pc = "exit"
  /\ \E k, m \in 1..Len(reqs) :
       /\ k + 2 = m
       /\ reqs[k].op = "delete" /\ reqs[m].op = "delete"
       /\ reqs[k].name # reqs[m].name
       /\ reqs[m - 1].op = "config" /\ reqs[m - 1].name = reqs[m].name


\* a sequence with every run of equal adjacent elements reduced to one
RECURSIVE Collapse(_)
Collapse(s) ==
  IF Len(s) <= 1 THEN s
  ELSE LET r == Collapse(Tail(s))
       IN  IF s[1] = r[1] THEN r ELSE << s[1] >> \o r

\* the connector names of the requests issued after the list call
PerConnectorNames == [k \in 1..(Len(reqs) - 1) |-> reqs[k + 1].name]

\* C23: a name-pattern command works through the matched names one after
\* the other in list order: the requests after the list call form one
\* consecutive group per matched name, the groups follow the order of the
\* matched names (which is the order of the list), no request is repeated,
\* and when the loop is over every matched name has had its group.
C23_BulkSerialOrdered ==
  (command \in ConnectorCommands /\ Listed) =>
    LET groups == Collapse(PerConnectorNames)
    IN  /\ Len(groups) <= Len(matches)
        /\ groups = SubSeq(matches, 1, Len(groups))
        /\ \A x, y \in 1..Len(groups) :
             x < y => Position(reqs[1].body, groups[x]) < Position(reqs[1].body, groups[y])
        /\ \A x, y \in 2..Len(reqs) :
             (x # y /\ reqs[x].name = reqs[y].name /\ reqs[x].op = reqs[y].op)
               => reqs[x].id # reqs[y].id
        /\ pc \in { "find", "print", "exit" } \/ Len(groups) \in { i - 1, i }
        /\ pc \in { "print", "exit" } => groups = matches

\* "pause" over three matched connectors: the first request failed, and
\* the run went on with the second and the third, one request each
C23_Witness ==
  /\ command = "pause" /\ Listed /\ pc = "exit"
  /\ Len(matches) = 3 /\ Len(reqs) = 4
  /\ reqs[2].code # 200
  /\ PerConnectorNames = matches


\* s is l with some elements left out: same elements, same relative order
RECURSIVE IsSubsequence(_, _)
IsSubsequence(s, l) ==
  IF Len(s) = 0 THEN TRUE
  ELSE IF Len(l) = 0 THEN FALSE
  ELSE IF s[1] = l[1] THEN IsSubsequence(Tail(s), Tail(l))
  ELSE IsSubsequence(s, Tail(l))

\* findMatchingConnectors has returned to the handler with a served list
MatcherReturned ==
  /\ Listed
  /\ \/ command \in ConnectorCommands /\ Compiles(argv.connector) /\ pc # "find"
     \/ command = "list" /\ IsStateFilter(argv.state) /\ pc \in { "print", "exit" }

\* the sequence findMatchingConnectors returned
Returned == IF command = "list" THEN result.val ELSE matches

\* the value of the command's predicate for a listed name
PredicateHolds(n) ==
  IF command = "list"
  THEN StateMatches(srvStatus[n], ToUpper(argv.state))
  ELSE MatchString(argv.connector, n)

\* C24: whatever the predicate, findMatchingConnectors returns a
\* subsequence of the list the list call returned, and a listed name is in
\* it exactly when the predicate holds for that name.
C24_MatcherSelectsByPredicate ==
  MatcherReturned =>
    /\ IsSubsequence(Returned, reqs[1].body)
    /\ \A k \in 1..Len(reqs[1].body) :
         (\E m \in 1..Len(Returned) : Returned[m] = reqs[1].body[k])
           <=> PredicateHolds(reqs[1].body[k])

\* what the code guarantees: the result is a subsequence of the list, it
\* holds only names for which the predicate holds, and it holds all of them
\* unless a predicate call returned an error, which ends the loop and leaves
\* out every later name
MatcherSelectsUntilError ==
  MatcherReturned =>
    /\ IsSubsequence(Returned, reqs[1].body)
    /\ \A m \in 1..Len(Returned) : PredicateHolds(Returned[m])
    /\ (\A k \in 2..Len(reqs) : reqs[k].op = "status" => reqs[k].code = 200)
         => Returned = SelectSeq(reqs[1].body, PredicateHolds)
    /\ \A k \in 2..Len(reqs) :
         (command = "list" /\ reqs[k].code # 200) =>
           Returned = SelectSeq(SubSeq(reqs[1].body, 1, k - 2), PredicateHolds)

\* the status of the first name failed, the second name has the state
\* asked for, and the list printed is empty with exit code 0
MatcherSelectsUntilError_Witness ==
  /\ command = "list" /\ MatcherReturned /\ pc = "exit" /\ exitCode = 0
  /\ Len(reqs) = 2 /\ reqs[2].code # 200
  /\ Len(reqs[1].body) >= 2 /\ PredicateHolds(reqs[1].body[2])
  /\ Returned = << >>


\* n: the number of connectors the list call returned (0 when it failed)
ListedCount == IF Listed THEN Len(reqs[1].body) ELSE 0

\* t: the largest number of tasks of a listed connector
ListedTasks ==
  IF ListedCount = 0 THEN 0
  ELSE LET counts == { Len(srvStatus[reqs[1].body[k]].tasks) : k \in 1..ListedCount }
       IN  CHOOSE c \in counts : \A d \in counts : d <= c

\* the number of HTTP calls a command may issue for n connectors of at most t tasks
CallBound(cmd, n, t) ==
  CASE cmd \in { "delete", "delete-all" } -> 1 + 2 * n
    [] cmd = "restart-failed" -> 1 + n + n * t
    [] cmd = "scale" -> 2
    [] cmd = "list" -> 1 + n
    [] cmd \in ConnectorCommands -> 1 + n
    [] OTHER -> 1

\* position of the run: before the handler, in it, printing, ended
Stage ==
  CASE pc = "validate" -> 0
    [] pc = "print" -> 2
    [] pc = "exit" -> 3
    [] OTHER -> 1

\* every step issues a call (this run's or another client's) or moves on to a later stage
Rank == Len(reqs) + Len(others) + Stage

CallsBounded == Len(reqs) <= CallBound(command, ListedCount, ListedTasks)

\* a run that has not ended can take a step of its own
CanStep == pc # "exit" => ENABLED (Next /\ others' = others)

RegisterCallsBounded ==
  /\ command = "register" => Len(reqs) <= 4
  /\ pc # "exit" => ENABLED RegistryNext

\* a forced registration that issued all four calls
RegisterCallsBounded_Witness ==
  command = "register" /\ pc = "exit" /\ Len(reqs) = 4


\* C26: "delete", "pause" and "resume" over at least one matched connector
\* return the outcome of the last matched connector alone: once the loop is
\* over, the last request is one for the last matched name, the error
\* returned is nil when that request succeeded and is its error when it
\* failed, whatever the requests for the earlier connectors returned; the
\* exit code is 0 or 1 accordingly.
C26_ErrorIsLastConnectorsOutcome ==
  ( /\ command \in { "delete", "pause", "resume" } /\ Listed
    /\ Len(matches) >= 1 /\ pc \in { "print", "exit" } ) =>
    LET last == reqs[Len(reqs)]
    IN  /\ Len(reqs) >= 2
        /\ last.name = matches[Len(matches)]
        /\ e = IF last.code = 200 THEN NoErr ELSE last.body
        /\ pc = "exit" => exitCode = IF last.code = 200 THEN 0 ELSE 1

\* the request for an earlier matched connector failed, the one for the
\* last succeeded, and the command returned no error
C26_Witness ==
  /\ command = "pause" /\ Listed /\ pc = "exit"
  /\ Len(matches) >= 2
  /\ reqs[2].code # 200 /\ reqs[2].name = matches[1]
  /\ reqs[Len(reqs)].code = 200
  /\ e = NoErr /\ exitCode = 0

\* the same with "delete": an earlier deletion failed, the last one succeeded
ErrorIsLastConnectorsOutcome_Delete ==
  /\ command = "delete" /\ Listed /\ pc = "exit"
  /\ \E k \in 2..Len(reqs) : reqs[k].op = "delete" /\ reqs[k].code # 200
  /\ reqs[Len(reqs)].op = "delete" /\ reqs[Len(reqs)].code = 200
  /\ e = NoErr /\ exitCode = 0


\* the compatibility updates issued so far
Updates == { k \in 1..Len(reqs) : reqs[k].op = "update-compat" }

\* the level the registry held when it served the read (no other client
\* acts, so it is the level before the invocation)
LevelBefore == reqs[1].body[CHOOSE key \in DOMAIN reqs[1].body : TRUE]

\* C27: a forced registration whose read and whose two compatibility
\* updates were served leaves the subject at the level it had before,
\* whether the register call succeeded or failed; when the level read is
\* NONE or the read failed, no compatibility update is issued and the
\* register call is issued exactly once.
C27_ForceRestoresLevel ==
  (command = "register" /\ argv.force /\ Len(reqs) >= 1) =>
    /\ reqs[1].op = "get-compat"
    /\ ( /\ pc = "exit" /\ exitCode = 0 /\ reqs[1].code = 200
         /\ Cardinality(Updates) = 2
         /\ \A k \in Updates : reqs[k].code = 200 )
         => srvCompat[argv.subject] = LevelBefore
    /\ (reqs[1].code # 200 \/ LevelRead = L_NONE) =>
         /\ Updates = {}
         /\ Cardinality({ k \in 1..Len(reqs) : reqs[k].op = "register" }) <= 1
         /\ (pc = "exit" /\ exitCode = 0) =>
              Len(reqs) = 2 /\ reqs[2].op = "register"

\* a subject under FULL: both updates were served, the register call was
\* refused, and the subject is under FULL again
C27_Witness ==
  /\ command = "register" /\ argv.force /\ pc = "exit" /\ exitCode = 0
  /\ Len(reqs) = 4 /\ reqs[1].code = 200 /\ LevelBefore = L_FULL
  /\ reqs[2].code = 200 /\ reqs[3].code # 200 /\ reqs[4].code = 200
  /\ srvCompat[argv.subject] = L_FULL

\* the read failed: one register call and no update
ForceWithoutLevel_Witness ==
  /\ command = "register" /\ argv.force /\ pc = "exit" /\ exitCode = 0
  /\ reqs[1].op = "get-compat" /\ reqs[1].code # 200
  /\ Len(reqs) = 2 /\ reqs[2].op = "register"

\* the level read is NONE: one register call and no update
ForceUnderNone_Witness ==
  /\ command = "register" /\ argv.force /\ pc = "exit" /\ exitCode = 0
  /\ LevelRead = L_NONE
  /\ Len(reqs) = 2 /\ reqs[2].op = "register"


\* what "scale" has issued in every state: at most a configuration fetch
\* followed by an update, both for the name given with -connector as typed;
\* after a failed fetch nothing more, and the run ends with that error
ScaleRequests ==
  command = "scale" =>
    /\ Len(reqs) <= 2
    /\ \A k \in 1..Len(reqs) : reqs[k].name = argv.connector
    /\ Len(reqs) >= 1 => reqs[1].op = "config"
    /\ Len(reqs) = 2 => reqs[2].op = "update" /\ reqs[1].code = 200
    /\ (Len(reqs) >= 1 /\ reqs[1].code # 200) =>
         /\ Len(reqs) = 1
         /\ pc \in { "print", "exit" }
         /\ e = reqs[1].body
         /\ pc = "exit" =>
              /\ exitCode = 1
              /\ Lines("result") = {}
              /\ Len(out) = 1 /\ out[1].msg = "error" /\ out[1].val = reqs[1].body

\* a request of "scale" that is not a served update leaves the worker as it was
ScaleFrame ==
  (command = "scale" /\ Len(reqs') > Len(reqs)) =>
    \/ reqs'[Len(reqs')].op = "update" /\ reqs'[Len(reqs')].code = 200
    \/ server' = server

\* C28: "scale" issues at most two requests, a configuration fetch and
\* then an update, both for the connector named by -connector taken as
\* typed; when the fetch returns an error no update is issued, the worker's
\* configuration is left as it was and the command ends with that error.
C28_ScaleFetchThenUpdate ==
  /\ []ScaleRequests
  /\ [][ScaleFrame]_vars

\* -connector .* against a worker that has connectors: the fetch for the
\* name ".*" failed, no list call and no update were issued, exit code 1
C28_Witness ==
  /\ command = "scale" /\ pc = "exit" /\ exitCode = 1
  /\ argv.connector = P_all /\ Len(srvList) >= 2
  /\ Len(reqs) = 1 /\ reqs[1].op = "config" /\ reqs[1].code # 200

\* the fetch and the update were both served
ScaleFetchThenUpdate_Served ==
  /\ command = "scale" /\ pc = "exit" /\ exitCode = 0
  /\ Len(reqs) = 2 /\ reqs[1].code = 200 /\ reqs[2].code = 200


\* the requests that change a connector or one of its tasks
MutatingOps == { "delete", "pause", "resume", "restart" }

\* the mutating operation of a command
MutatingOp(cmd) == IF cmd = "restart-failed" THEN "restart" ELSE cmd

\* C29: "delete", "pause", "resume" and "restart-failed" issue a mutating
\* request only for a listed name that the expression matches, which is a
\* name of the matcher's result: a listed name that does not match gets no
\* mutating request, and with no match there is no mutating request.
C29_MutatesOnlyMatched ==
  command \in { "delete", "pause", "resume", "restart-failed" } =>
    \A k \in 1..Len(reqs) :
      reqs[k].op \in MutatingOps =>
        /\ Listed /\ k > 1
        /\ reqs[k].op = MutatingOp(command)
        /\ \E m \in 1..Len(reqs[1].body) : reqs[1].body[m] = reqs[k].name
        /\ MatchString(argv.connector, reqs[k].name)
        /\ \E m \in 1..Len(matches) : matches[m] = reqs[k].name

\* "resume" with ^b over a list that holds a and b: b was resumed, a got
\* no request at all
C29_Witness ==
  /\ command = "resume" /\ Listed /\ pc = "exit"
  /\ argv.connector = P_startb
  /\ \E m \in 1..Len(reqs[1].body) : reqs[1].body[m] = N_a
  /\ Requests("resume", N_b) # {}
  /\ \A k \in 2..Len(reqs) : reqs[k].name # N_a

\* an expression that matches no listed name: the list call and nothing else
MutatesOnlyMatched_NoMatch ==
  /\ command = "delete" /\ Listed /\ pc = "exit"
  /\ Len(reqs[1].body) >= 1 /\ matches = << >>
  /\ Len(reqs) = 1


\* the commands that only read
ReadOnlyCommands == { "list", "config", "status", "tasks", "plugins", "version" }

\* every request issued so far is a GET
OnlyGets ==
  command \in ReadOnlyCommands =>
    \A k \in 1..Len(reqs) :
      /\ Method(reqs[k].op) = "GET"
      /\ reqs[k].op \notin { "create", "update", "delete", "pause", "resume", "restart" }

\* no step of a read-only command changes the worker
ReadOnlyFrame == command \in ReadOnlyCommands => server' = server

\* C30: "list" with or without a state filter, "config", "status",
\* "tasks", "plugins" and "version" issue GET requests only, whether the
\* calls succeed or fail, and leave the worker's connectors, their
\* configurations and their states as they were.
C30_ReadOnlyCommandsOnlyGet ==
  /\ []OnlyGets
  /\ [][ReadOnlyFrame]_vars

\* "status" over two matched connectors, the first fetch failed: the run
\* issued three GET requests
C30_Witness ==
  /\ command = "status" /\ pc = "exit" /\ Listed
  /\ Len(reqs) = 3 /\ reqs[2].code # 200 /\ reqs[3].code = 200
  /\ \A k \in 1..Len(reqs) : Method(reqs[k].op) = "GET"

\* "list" with a state filter fetched the status of two connectors
ReadOnlyList_Witness ==
  /\ command = "list" /\ IsStateFilter(argv.state) /\ pc = "exit" /\ Listed
  /\ Len(reqs) = 3
  /\ \A k \in 1..Len(reqs) : Method(reqs[k].op) = "GET"

=============================================================================
